---- MODULE Spec2Model ----
(***************************************************************************)
(* HTTP message grammar and validation engine: header keys and values,    *)
(* the merge-on-insert header map, the request parser and the response    *)
(* builder with its byte serialization.                                    *)
(*                                                                         *)
(* A Rust `str` / `String` is a finite sequence of Unicode scalar values  *)
(* (code points); a `Vec<u8>` is a sequence of bytes.  Validated keys and *)
(* values are ASCII, so their UTF-8 bytes are their code points.          *)
(***************************************************************************)
EXTENDS Integers, Sequences, FiniteSets, TLC

VARIABLES
    \* ---- response builder (response.rs) and request parse (request.rs)
    response,    \* the status code of the live Response / ResponseBuilder
    typestate,   \* "None" | "Response" | "Incomplete" | "Complete" | "Err"
    headers,     \* ResponseBuilder::headers : HashMap<Key, Value>
    body,        \* ResponseBuilder::body : Vec<u8>
    error,       \* the HeaderError / InvalidCode of the last failed call
    fed,         \* history: the (key, value) pairs passed to header() so far;
                 \* for a request text, the parts it was written from
    out,         \* the bytes returned by into_bytes(), which consumes the value
    request,     \* the request text that was parsed, with the result
    \* ---- Key::new and the comparisons of a Key (header/key.rs)
    raw,         \* the raw string given to Key::new / Value::new, or the
                 \* request text given to the parser
    key,         \* Result<Key, KeyError>
    cmp,         \* the outcome of comparing the key or value with another
    \* ---- Value::new and Value::append (header/value.rs)
    value,       \* Result<Value, ValueError> of Value::new, then appended to
    pieces,      \* history: the raw strings that went into `value`
    appendErr    \* the ValueError of the last failed append

builderVars == <<response, typestate, headers, body, error, fed, out, request>>
keyVars     == <<raw, key, cmp>>
valueVars   == <<value, pieces, appendErr>>
vars        == <<builderVars, keyVars, valueVars>>

(***************************************************************************)
(* Result and Option values                                                *)
(***************************************************************************)
Ok(v)  == [tag |-> "Ok", val |-> v]
Err(e) == [tag |-> "Err", err |-> e]
None   == [tag |-> "None"]
Some(v) == [tag |-> "Some", val |-> v]

IsOk(r)  == r.tag = "Ok"
IsErr(r) == r.tag = "Err"

\* the state before anything was constructed
BuilderIdle ==
    /\ response = 0
    /\ typestate = "None"
    /\ headers = <<>>
    /\ body = <<>>
    /\ error = None
    /\ fed = <<>>
    /\ out = None
    /\ request = None

KeyIdle == key = None /\ cmp = None

ValueIdle == value = None /\ pieces = <<>> /\ appendErr = None

(***************************************************************************)
(* Strings                                                                 *)
(***************************************************************************)
\* char::is_whitespace: the Unicode White_Space code points, which is what
\* str::trim, trim_start, trim_end and split_whitespace strip.
is_whitespace(c) ==
    c \in ({9, 10, 11, 12, 13, 32, 133, 160, 5760, 8232, 8233, 8239, 8287, 12288}
           \cup (8192..8202))

\* str::is_ascii
is_ascii(s) == \A i \in 1..Len(s) : s[i] < 128

\* str::is_empty
is_empty(s) == Len(s) = 0

\* str::trim_start: drops the longest prefix of whitespace
trim_start(s) ==
    LET n == Len(s)
        lead == {i \in 0..n : \A j \in 1..i : is_whitespace(s[j])}
        k == CHOOSE i \in lead : \A j \in lead : j <= i
    IN  SubSeq(s, k + 1, n)

\* str::trim_end: drops the longest suffix of whitespace
trim_end(s) ==
    LET n == Len(s)
        keep == {i \in 0..n : \A j \in (i + 1)..n : is_whitespace(s[j])}
        k == CHOOSE i \in keep : \A j \in keep : i <= j
    IN  SubSeq(s, 1, k)

\* str::trim
trim(s) == trim_end(trim_start(s))

\* char::to_ascii_lowercase / str::to_ascii_lowercase: only 'A'..'Z' change
to_ascii_lowercase(s) ==
    [i \in 1..Len(s) |-> IF s[i] \in 65..90 THEN s[i] + 32 ELSE s[i]]

\* str::contains([chars]): some character of s is one of cs
contains(s, cs) == \E i \in 1..Len(s) : s[i] \in cs

(***************************************************************************)
(* header/key.rs                                                           *)
(***************************************************************************)
\* A plausible slip: the key is stored as given instead of lower-cased.
Key_new_keeps_case(s) ==
    IF ~is_ascii(s) THEN Err("NonAsciiChars")
    ELSE IF is_empty(s) THEN Err("EmptyString")
    ELSE IF trim_start(s) # s THEN Err("LeadingWhitespace")
    ELSE IF trim_end(s) # s THEN Err("ColonWhitespace")
    ELSE Ok(s)

\* A plausible slip: the two whitespace checks are taken in the other order.
Key_new_trailing_first(s) ==
    IF ~is_ascii(s) THEN Err("NonAsciiChars")
    ELSE IF is_empty(s) THEN Err("EmptyString")
    ELSE IF trim_end(s) # s THEN Err("ColonWhitespace")
    ELSE IF trim_start(s) # s THEN Err("LeadingWhitespace")
    ELSE Ok(to_ascii_lowercase(s))

\* Key::new
Key_new(s) ==
    IF ~is_ascii(s) THEN Err("NonAsciiChars")
    ELSE IF is_empty(s) THEN Err("EmptyString")
    ELSE IF trim_start(s) # s THEN Err("LeadingWhitespace")
    ELSE IF trim_end(s) # s THEN Err("ColonWhitespace")
    ELSE Ok(to_ascii_lowercase(s))

\* A plausible slip: the other string is compared as it is spelled.
Key_eq_str_exact(k, other) == k = other

\* impl PartialEq<S> for Key: the stored text against the other string lower-cased
Key_eq_str(k, other) == k = to_ascii_lowercase(other)

\* #[derive(PartialEq)] on Result<Key, KeyError>, as in Key::new(a) == Key::new(b)
Key_eq(a, b) == a = b

(***************************************************************************)
(* header/value.rs                                                         *)
(***************************************************************************)
\* A plausible slip: the raw string is validated without being trimmed.
Value_new_no_trim(s) ==
    IF ~is_ascii(s) THEN Err("NonAsciiChars")
    ELSE IF is_empty(s) THEN Err("EmptyString")
    ELSE IF contains(s, {13, 10, 0}) THEN Err("IllegalChars")
    ELSE Ok(s)

\* A plausible slip: NUL is left out of the rejected characters.
Value_new_nul_allowed(s) ==
    LET t == trim(s)
    IN  IF ~is_ascii(t) THEN Err("NonAsciiChars")
        ELSE IF is_empty(t) THEN Err("EmptyString")
        ELSE IF contains(t, {13, 10}) THEN Err("IllegalChars")
        ELSE Ok(t)

\* A plausible slip: the illegal characters are looked for before the
\* non-ASCII ones.
Value_new_illegal_first(s) ==
    LET t == trim(s)
    IN  IF contains(t, {13, 10, 0}) THEN Err("IllegalChars")
        ELSE IF ~is_ascii(t) THEN Err("NonAsciiChars")
        ELSE IF is_empty(t) THEN Err("EmptyString")
        ELSE Ok(t)

\* Value::new
Value_new(s) ==
    LET t == trim(s)
    IN  IF ~is_ascii(t) THEN Err("NonAsciiChars")
        ELSE IF is_empty(t) THEN Err("EmptyString")
        ELSE IF contains(t, {13, 10, 0}) THEN Err("IllegalChars")
        ELSE Ok(t)

\* A plausible slip: the new piece is put in front of the existing value.
Value_append_prepends(v, s) ==
    LET cleaned == Value_new(s)
    IN  IF IsErr(cleaned) THEN cleaned
        ELSE Ok(cleaned.val \o <<44>> \o v)

\* Value::append: the value after the call, or the error that left it untouched
Value_append(v, s) ==
    LET cleaned == Value_new(s)
    IN  IF IsErr(cleaned) THEN cleaned
        ELSE Ok(v \o <<44>> \o cleaned.val)

(***************************************************************************)
(* header.rs: HeaderError                                                  *)
(***************************************************************************)
\* impl From<KeyError> for HeaderError
HeaderError_Key(e) == [variant |-> "Key", inner |-> e]

\* impl From<ValueError> for HeaderError
HeaderError_Value(e) == [variant |-> "Value", inner |-> e]

\* HeaderError::NoSeparator
HeaderError_NoSeparator == [variant |-> "NoSeparator"]

(***************************************************************************)
(* response.rs: status codes                                               *)
(***************************************************************************)
\* A plausible slip: the arm for 418 is missing from the match.
Response_try_from_without_418(code) ==
    IF code \in {100, 101, 102, 103, 200, 201, 202, 203, 204, 205, 206, 207,
                  208, 226, 300, 301, 302, 303, 304, 305, 306, 307, 308, 400,
                  401, 402, 403, 404, 405, 406, 407, 408, 409, 410, 411, 412,
                  413, 414, 415, 416, 417, 421, 422, 423, 424, 425, 426,
                  428, 429, 431, 451, 500, 501, 502, 503, 504, 505, 506, 507,
                  508, 510, 511}
    THEN Ok(code)
    ELSE Err([variant |-> "InvalidCode"])

\* impl TryFrom<u16> for Response: the arms of the match.  A Response is
\* written as its discriminant, which is what `self as u16` gives.
Response_try_from(code) ==
    IF code \in {100, 101, 102, 103, 200, 201, 202, 203, 204, 205, 206, 207,
                  208, 226, 300, 301, 302, 303, 304, 305, 306, 307, 308, 400,
                  401, 402, 403, 404, 405, 406, 407, 408, 409, 410, 411, 412,
                  413, 414, 415, 416, 417, 418, 421, 422, 423, 424, 425, 426,
                  428, 429, 431, 451, 500, 501, 502, 503, 504, 505, 506, 507,
                  508, 510, 511}
    THEN Ok(code)
    ELSE Err([variant |-> "InvalidCode"])

\* Response::new
Response_new(code) == Response_try_from(code)

\* standard_phrase: the reason phrase of a code, as written in the table
standard_phrase(code) ==
    CASE
         code = 100 -> Some(<<67, 79, 78, 84, 73, 78, 85, 69>>)  \* CONTINUE
      [] code = 101 -> Some(<<83, 87, 73, 84, 67, 72, 73, 78, 71, 32, 80, 82, 79, 84, 79, 67, 79, 76, 83>>)  \* SWITCHING PROTOCOLS
      [] code = 102 -> Some(<<80, 82, 79, 67, 69, 83, 83, 73, 78, 71>>)  \* PROCESSING
      [] code = 103 -> Some(<<69, 65, 82, 76, 89, 32, 72, 73, 78, 84, 83>>)  \* EARLY HINTS
      [] code = 200 -> Some(<<79, 75>>)  \* OK
      [] code = 201 -> Some(<<67, 82, 69, 65, 84, 69, 68>>)  \* CREATED
      [] code = 202 -> Some(<<65, 99, 99, 101, 112, 116, 101, 100>>)  \* Accepted
      [] code = 203 -> Some(<<78, 79, 78, 45, 65, 85, 84, 72, 79, 82, 73, 84, 65, 84, 73, 86, 69, 32, 73, 78, 70, 79, 82, 77, 65, 84, 73, 79, 78>>)  \* NON-AUTHORITATIVE INFORMATION
      [] code = 204 -> Some(<<78, 79, 32, 67, 79, 78, 84, 69, 78, 84>>)  \* NO CONTENT
      [] code = 205 -> Some(<<82, 69, 83, 69, 84, 32, 67, 79, 78, 84, 69, 78, 84>>)  \* RESET CONTENT
      [] code = 206 -> Some(<<80, 65, 82, 84, 73, 65, 76, 32, 67, 79, 78, 84, 69, 78, 84>>)  \* PARTIAL CONTENT
      [] code = 207 -> Some(<<77, 85, 76, 84, 73, 45, 83, 84, 65, 84, 85, 83>>)  \* MULTI-STATUS
      [] code = 208 -> Some(<<65, 76, 82, 69, 65, 68, 89, 32, 82, 69, 80, 79, 82, 84, 69, 68>>)  \* ALREADY REPORTED
      [] code = 226 -> Some(<<73, 77, 32, 85, 83, 69, 68>>)  \* IM USED
      [] code = 300 -> Some(<<77, 85, 76, 84, 73, 80, 76, 69, 32, 67, 72, 79, 73, 67, 69, 83>>)  \* MULTIPLE CHOICES
      [] code = 301 -> Some(<<77, 79, 86, 69, 68, 32, 80, 69, 82, 77, 65, 78, 69, 78, 84, 76, 89>>)  \* MOVED PERMANENTLY
      [] code = 302 -> Some(<<70, 79, 85, 78, 68>>)  \* FOUND
      [] code = 303 -> Some(<<83, 69, 69, 32, 79, 84, 72, 69, 82>>)  \* SEE OTHER
      [] code = 304 -> Some(<<78, 79, 84, 32, 77, 79, 68, 73, 70, 73, 69, 68>>)  \* NOT MODIFIED
      [] code = 305 -> Some(<<85, 83, 69, 32, 80, 82, 79, 88, 89>>)  \* USE PROXY
      [] code = 306 -> Some(<<83, 87, 73, 84, 67, 72, 32, 80, 82, 79, 88, 89>>)  \* SWITCH PROXY
      [] code = 307 -> Some(<<84, 69, 77, 80, 79, 82, 65, 82, 89, 32, 82, 69, 68, 73, 82, 69, 67, 84>>)  \* TEMPORARY REDIRECT
      [] code = 308 -> Some(<<80, 69, 82, 77, 65, 78, 69, 78, 84, 32, 82, 69, 68, 73, 82, 69, 67, 84>>)  \* PERMANENT REDIRECT
      [] code = 400 -> Some(<<66, 65, 68, 32, 82, 69, 81, 85, 69, 83, 84>>)  \* BAD REQUEST
      [] code = 401 -> Some(<<85, 78, 65, 85, 84, 72, 79, 82, 73, 90, 69, 68>>)  \* UNAUTHORIZED
      [] code = 402 -> Some(<<80, 65, 89, 77, 69, 78, 84, 32, 82, 69, 81, 85, 73, 82, 69, 68>>)  \* PAYMENT REQUIRED
      [] code = 403 -> Some(<<70, 79, 82, 66, 73, 68, 68, 69, 78>>)  \* FORBIDDEN
      [] code = 404 -> Some(<<78, 79, 84, 32, 70, 79, 85, 78, 68>>)  \* NOT FOUND
      [] code = 405 -> Some(<<77, 69, 84, 72, 79, 68, 32, 78, 79, 84, 32, 65, 76, 76, 79, 87, 69, 68>>)  \* METHOD NOT ALLOWED
      [] code = 406 -> Some(<<78, 79, 84, 32, 65, 67, 67, 67, 69, 80, 84, 65, 66, 76, 69>>)  \* NOT ACCCEPTABLE
      [] code = 407 -> Some(<<80, 82, 79, 88, 89, 32, 65, 85, 84, 72, 69, 78, 84, 73, 67, 65, 84, 73, 79, 78, 32, 82, 69, 81, 85, 73, 82, 69, 68>>)  \* PROXY AUTHENTICATION REQUIRED
      [] code = 408 -> Some(<<82, 69, 81, 85, 69, 83, 84, 32, 84, 73, 77, 69, 79, 85, 84>>)  \* REQUEST TIMEOUT
      [] code = 409 -> Some(<<67, 79, 78, 70, 76, 73, 67, 84>>)  \* CONFLICT
      [] code = 410 -> Some(<<71, 79, 78, 69>>)  \* GONE
      [] code = 411 -> Some(<<76, 69, 78, 71, 84, 72, 32, 82, 69, 81, 85, 73, 82, 69, 68>>)  \* LENGTH REQUIRED
      [] code = 412 -> Some(<<80, 82, 69, 67, 79, 78, 68, 73, 84, 79, 78, 32, 70, 65, 73, 76, 69, 68>>)  \* PRECONDITON FAILED
      [] code = 413 -> Some(<<80, 65, 89, 76, 79, 65, 68, 32, 84, 79, 79, 32, 76, 65, 82, 71, 69>>)  \* PAYLOAD TOO LARGE
      [] code = 414 -> Some(<<85, 82, 73, 32, 84, 79, 79, 32, 76, 79, 78, 71>>)  \* URI TOO LONG
      [] code = 415 -> Some(<<85, 78, 83, 85, 80, 80, 79, 82, 84, 69, 68, 32, 77, 69, 68, 73, 65, 32, 84, 89, 80, 69>>)  \* UNSUPPORTED MEDIA TYPE
      [] code = 416 -> Some(<<82, 65, 78, 71, 69, 32, 78, 79, 84, 32, 83, 65, 84, 73, 83, 70, 73, 65, 66, 76, 69>>)  \* RANGE NOT SATISFIABLE
      [] code = 417 -> Some(<<69, 88, 80, 69, 67, 84, 65, 84, 73, 79, 78, 32, 70, 65, 73, 76, 69, 68>>)  \* EXPECTATION FAILED
      [] code = 418 -> Some(<<73, 77, 32, 65, 32, 84, 69, 65, 80, 79, 84>>)  \* IM A TEAPOT
      [] code = 421 -> Some(<<77, 73, 83, 68, 73, 82, 69, 67, 84, 69, 68, 32, 82, 69, 81, 85, 69, 83, 84>>)  \* MISDIRECTED REQUEST
      [] code = 422 -> Some(<<85, 78, 80, 82, 79, 67, 69, 83, 83, 65, 66, 76, 69, 32, 69, 78, 84, 73, 84, 89>>)  \* UNPROCESSABLE ENTITY
      [] code = 423 -> Some(<<76, 79, 67, 75, 69, 68>>)  \* LOCKED
      [] code = 424 -> Some(<<70, 65, 73, 76, 69, 68, 32, 68, 69, 80, 69, 78, 68, 69, 78, 67, 89>>)  \* FAILED DEPENDENCY
      [] code = 425 -> Some(<<84, 79, 79, 32, 69, 65, 82, 76, 89>>)  \* TOO EARLY
      [] code = 426 -> Some(<<85, 80, 71, 82, 65, 68, 69, 32, 82, 69, 81, 85, 73, 82, 69, 68>>)  \* UPGRADE REQUIRED
      [] code = 428 -> Some(<<80, 82, 69, 67, 79, 78, 68, 73, 84, 73, 79, 78, 32, 82, 69, 81, 85, 73, 82, 69, 68>>)  \* PRECONDITION REQUIRED
      [] code = 429 -> Some(<<84, 79, 79, 32, 77, 65, 78, 89, 32, 82, 69, 81, 85, 69, 83, 84, 83>>)  \* TOO MANY REQUESTS
      [] code = 431 -> Some(<<82, 69, 81, 85, 69, 83, 84, 32, 72, 69, 65, 68, 69, 82, 32, 70, 73, 69, 76, 68, 83, 32, 84, 79, 79, 32, 76, 65, 82, 71, 69>>)  \* REQUEST HEADER FIELDS TOO LARGE
      [] code = 451 -> Some(<<85, 78, 65, 86, 65, 73, 76, 65, 66, 76, 69, 32, 70, 79, 82, 32, 76, 69, 71, 65, 76, 32, 82, 69, 65, 83, 79, 78, 83>>)  \* UNAVAILABLE FOR LEGAL REASONS
      [] code = 500 -> Some(<<83, 69, 82, 86, 69, 82, 32, 69, 82, 82, 79, 82>>)  \* SERVER ERROR
      [] code = 501 -> Some(<<78, 79, 84, 32, 73, 77, 80, 76, 69, 77, 69, 78, 84, 69, 68>>)  \* NOT IMPLEMENTED
      [] code = 502 -> Some(<<66, 65, 68, 32, 71, 65, 84, 69, 87, 65, 89>>)  \* BAD GATEWAY
      [] code = 503 -> Some(<<83, 69, 82, 86, 73, 67, 69, 32, 85, 78, 65, 86, 65, 73, 76, 65, 66, 76, 69>>)  \* SERVICE UNAVAILABLE
      [] code = 504 -> Some(<<71, 65, 84, 69, 87, 65, 89, 32, 84, 73, 77, 69, 79, 85, 84>>)  \* GATEWAY TIMEOUT
      [] code = 505 -> Some(<<72, 84, 84, 80, 32, 86, 69, 82, 83, 73, 79, 78, 32, 78, 79, 84, 32, 83, 85, 80, 80, 79, 82, 84, 69, 68>>)  \* HTTP VERSION NOT SUPPORTED
      [] code = 506 -> Some(<<86, 65, 82, 73, 65, 78, 84, 32, 65, 76, 83, 79, 32, 78, 69, 71, 79, 84, 73, 65, 84, 69, 83>>)  \* VARIANT ALSO NEGOTIATES
      [] code = 507 -> Some(<<73, 78, 83, 85, 70, 70, 73, 67, 73, 69, 78, 84, 32, 83, 84, 79, 82, 65, 71, 69>>)  \* INSUFFICIENT STORAGE
      [] code = 508 -> Some(<<76, 79, 79, 80, 32, 68, 69, 84, 69, 67, 84, 69, 68>>)  \* LOOP DETECTED
      [] code = 510 -> Some(<<78, 79, 84, 32, 69, 88, 84, 69, 78, 68, 69, 68>>)  \* NOT EXTENDED
      [] code = 511 -> Some(<<78, 69, 84, 87, 79, 82, 75, 32, 65, 85, 84, 72, 69, 78, 84, 73, 67, 65, 84, 73, 79, 78, 32, 82, 69, 81, 85, 73, 82, 69, 68>>)  \* NETWORK AUTHENTICATION REQUIRED
      [] OTHER -> None

(***************************************************************************)
(* response.rs: serialization                                              *)
(***************************************************************************)
\* u16 / integer Display: the decimal digits, no sign, no leading zero
RECURSIVE to_string(_)
to_string(n) ==
    IF n < 10 THEN <<48 + n>> ELSE to_string(n \div 10) \o <<48 + (n % 10)>>

\* [String]::join(sep)
RECURSIVE join(_, _)
join(strs, sep) ==
    IF Len(strs) = 0 THEN <<>>
    ELSE IF Len(strs) = 1 THEN strs[1]
    ELSE strs[1] \o sep \o join(Tail(strs), sep)

\* the literal "\r\n"
CRLF == <<13, 10>>

\* A plausible slip: the start line is written with a fixed HTTP/1.1.
first_line_fixed_version(version, code) ==
    <<72, 84, 84, 80, 47>> \o to_string(1) \o <<46>> \o to_string(1)
        \o <<32>> \o to_string(code) \o <<32>> \o standard_phrase(code).val

\* FirstLine::first_line: format!("HTTP/{}.{} {} {}", major, minor, code, phrase)
\* (ResponseCode::standard_phrase unwraps the table's entry)
first_line(version, code) ==
    <<72, 84, 84, 80, 47>> \o to_string(version[1]) \o <<46>> \o to_string(version[2])
        \o <<32>> \o to_string(code) \o <<32>> \o standard_phrase(code).val

\* impl IntoBytes for Response: max_version
Response_max_version == <<1, 0>>

\* impl IntoBytes for Response: into_bytes, through Display: "{first_line}\r\n\r\n"
Response_into_bytes(code) ==
    first_line(Response_max_version, code) \o CRLF \o CRLF

\* A plausible slip: the lookup uses the key as the caller spelled it.
max_version_case_sensitive(h) ==
    IF <<72, 111, 115, 116>> \in DOMAIN h THEN <<1, 1>> ELSE <<1, 0>>

\* impl IntoBytes for ResponseBuilder: max_version, headers.contains_key(Key::new("host"))
max_version(h) ==
    LET k == Key_new(<<104, 111, 115, 116>>).val
    IN  IF k \in DOMAIN h THEN <<1, 1>> ELSE <<1, 0>>

\* the orders in which a HashMap may hand out its entries: every arrangement
\* of the keys, each exactly once
IterationOrders(h) ==
    {ord \in [1..Cardinality(DOMAIN h) -> DOMAIN h] :
        \A i, j \in DOMAIN ord : i # j => ord[i] # ord[j]}

\* A plausible slip: a space is written after the colon.
header_line_with_space(k, v) == k \o <<58, 32>> \o v

\* format!("{k}:{v}")
header_line(k, v) == k \o <<58>> \o v

\* impl IntoBytes for ResponseBuilder: into_bytes, with the map iterated in `ord`
into_bytes(code, h, b, ord) ==
    join(<<first_line(max_version(h), code)>>
             \o [i \in 1..Len(ord) |-> header_line(ord[i], h[ord[i]])],
         CRLF)
        \o CRLF \o CRLF \o b

(***************************************************************************)
(* request.rs: the request parser                                          *)
(***************************************************************************)
\* str::find(c): the position of the first c in s, 0 when there is none
find(s, c) ==
    IF \E i \in 1..Len(s) : s[i] = c
    THEN CHOOSE i \in 1..Len(s) : s[i] = c /\ \A j \in 1..(i - 1) : s[j] # c
    ELSE 0

\* str::lines: cut after every LF; the LF and a CR right before it are not
\* part of the line; text after the last LF is a line only when non-empty
RECURSIVE lines(_)
lines(s) ==
    IF Len(s) = 0 THEN <<>>
    ELSE LET nl == find(s, 10)
         IN  IF nl = 0 THEN <<s>>
             ELSE LET l == SubSeq(s, 1, nl - 1)
                      line == IF Len(l) > 0 /\ l[Len(l)] = 13
                              THEN SubSeq(l, 1, Len(l) - 1)
                              ELSE l
                  IN  <<line>> \o lines(SubSeq(s, nl + 1, Len(s)))

\* str::split_whitespace: the maximal runs of non-whitespace characters
RECURSIVE split_whitespace(_)
split_whitespace(s) ==
    LET t == trim_start(s)
    IN  IF Len(t) = 0 THEN <<>>
        ELSE LET ws == {i \in 1..Len(t) : is_whitespace(t[i])}
                 e == IF ws = {} THEN Len(t) + 1
                      ELSE CHOOSE i \in ws : \A j \in ws : i <= j
             IN  <<SubSeq(t, 1, e - 1)>> \o split_whitespace(SubSeq(t, e, Len(t)))

\* A plausible slip: the split is made at the last c (rsplit_once).
split_once_at_last(s, c) ==
    LET cs == {i \in 1..Len(s) : s[i] = c}
    IN  IF cs = {} THEN None
        ELSE LET i == CHOOSE x \in cs : \A y \in cs : y <= x
             IN  Some(<<SubSeq(s, 1, i - 1), SubSeq(s, i + 1, Len(s))>>)

\* str::split_once(c): the text before and after the first c
split_once(s, c) ==
    LET i == find(s, c)
    IN  IF i = 0 THEN None
        ELSE Some(<<SubSeq(s, 1, i - 1), SubSeq(s, i + 1, Len(s))>>)

\* A plausible slip: the prefix is compared without regard to letter case.
strip_prefix_ignores_case(s, p) ==
    IF Len(s) >= Len(p)
       /\ to_ascii_lowercase(SubSeq(s, 1, Len(p))) = to_ascii_lowercase(p)
    THEN Some(SubSeq(s, Len(p) + 1, Len(s)))
    ELSE None

\* str::strip_prefix(p)
strip_prefix(s, p) ==
    IF Len(s) >= Len(p) /\ SubSeq(s, 1, Len(p)) = p
    THEN Some(SubSeq(s, Len(p) + 1, Len(s)))
    ELSE None

\* the value of a run of decimal digits
RECURSIVE digits_value(_)
digits_value(s) ==
    IF Len(s) = 0 THEN 0
    ELSE 10 * digits_value(SubSeq(s, 1, Len(s) - 1)) + (s[Len(s)] - 48)

\* str::parse for an unsigned integer: an optional '+', then one or more
\* decimal digits.  (The strings of the model stay far below the integer width.)
parse_unsigned(s) ==
    LET d == IF Len(s) > 0 /\ s[1] = 43 THEN Tail(s) ELSE s
    IN  IF Len(d) > 0 /\ \A i \in 1..Len(d) : d[i] \in 48..57
        THEN Some(digits_value(d))
        ELSE None

\* RequestMethod::is_safe
is_safe(method) == method \in {"Get", "Head", "Options", "Trace"}

\* A plausible slip: the safe methods are left out of the idempotent ones.
is_idempotent_without_safe(method) == method \in {"Put", "Delete"}

\* RequestMethod::is_idempotent
is_idempotent(method) == is_safe(method) \/ method \in {"Put", "Delete"}

\* A plausible slip: the check for upper-case letters is left out.
RequestMethod_from_str_no_case_check(s) ==
    CASE
            s = <<71, 69, 84>> -> Ok("Get")  \* GET
         [] s = <<72, 69, 65, 68>> -> Ok("Head")  \* HEAD
         [] s = <<80, 79, 83, 84>> -> Ok("Post")  \* POST
         [] s = <<80, 85, 84>> -> Ok("Put")  \* PUT
         [] s = <<68, 69, 76, 69, 84, 69>> -> Ok("Delete")  \* DELETE
         [] s = <<67, 79, 78, 78, 69, 67, 84>> -> Ok("Connect")  \* CONNECT
         [] s = <<79, 80, 84, 73, 79, 78, 83>> -> Ok("Options")  \* OPTIONS
         [] s = <<84, 82, 65, 67, 69>> -> Ok("Trace")  \* TRACE
           [] OTHER -> Err("NotAMethod")

\* impl FromStr for RequestMethod
RequestMethod_from_str(s) ==
    IF ~(\A i \in 1..Len(s) : s[i] \in 65..90) THEN Err("NotAsciiUppercase")
    ELSE CASE
            s = <<71, 69, 84>> -> Ok("Get")  \* GET
         [] s = <<72, 69, 65, 68>> -> Ok("Head")  \* HEAD
         [] s = <<80, 79, 83, 84>> -> Ok("Post")  \* POST
         [] s = <<80, 85, 84>> -> Ok("Put")  \* PUT
         [] s = <<68, 69, 76, 69, 84, 69>> -> Ok("Delete")  \* DELETE
         [] s = <<67, 79, 78, 78, 69, 67, 84>> -> Ok("Connect")  \* CONNECT
         [] s = <<79, 80, 84, 73, 79, 78, 83>> -> Ok("Options")  \* OPTIONS
         [] s = <<84, 82, 65, 67, 69>> -> Ok("Trace")  \* TRACE
           [] OTHER -> Err("NotAMethod")

\* RequestParseError, a unit variant and a variant with a payload
RequestParseError(v) == [variant |-> v]
RequestParseError_of(v, inner) == [variant |-> v, inner |-> inner]

\* HashMap::insert / Entry: the map with key k bound to v
map_insert(h, k, v) == [x \in DOMAIN h \cup {k} |-> IF x = k THEN v ELSE h[x]]

\* A plausible slip: after an error the fold starts again from an empty map
\* instead of passing the error on, so the last invalid line decides.
header_fold_step_restarts(h, new) ==
    LET acc == IF IsErr(h) THEN Ok(<<>>) ELSE h
    IN   LET kv == split_once(new, 58)
         IN  IF kv = None THEN Err(HeaderError_NoSeparator)
             ELSE LET k == Key_new(kv.val[1])
                  IN  IF IsErr(k) THEN Err(HeaderError_Key(k.err))
                      ELSE IF k.val \in DOMAIN acc.val
                      THEN LET a == Value_append(acc.val[k.val], kv.val[2])
                           IN  IF IsErr(a) THEN Err(HeaderError_Value(a.err))
                               ELSE Ok(map_insert(acc.val, k.val, a.val))
                      ELSE LET v == Value_new(kv.val[2])
                           IN  IF IsErr(v) THEN Err(HeaderError_Value(v.err))
                               ELSE Ok(map_insert(acc.val, k.val, v.val))

\* Request::from_str, the closure of the header fold: one header line into
\* the accumulated Result<HashMap<Key, Value>, HeaderError>
header_fold_step(h, new) ==
    IF IsErr(h) THEN h
    ELSE LET kv == split_once(new, 58)
         IN  IF kv = None THEN Err(HeaderError_NoSeparator)
             ELSE LET k == Key_new(kv.val[1])
                  IN  IF IsErr(k) THEN Err(HeaderError_Key(k.err))
                      ELSE IF k.val \in DOMAIN h.val
                      THEN LET a == Value_append(h.val[k.val], kv.val[2])
                           IN  IF IsErr(a) THEN Err(HeaderError_Value(a.err))
                               ELSE Ok(map_insert(h.val, k.val, a.val))
                      ELSE LET v == Value_new(kv.val[2])
                           IN  IF IsErr(v) THEN Err(HeaderError_Value(v.err))
                               ELSE Ok(map_insert(h.val, k.val, v.val))

\* Iterator::fold of header_fold_step over the header lines, from Ok(HashMap::new())
RECURSIVE header_fold(_, _)
header_fold(h, ls) ==
    IF Len(ls) = 0 THEN h
    ELSE header_fold(header_fold_step(h, Head(ls)), Tail(ls))

\* A plausible slip: empty lines are filtered out instead of ending the
\* header block (filter in place of take_while).
take_while_nonempty_filters(ls) == SelectSeq(ls, LAMBDA l : ~is_empty(l))

\* Iterator::take_while(|l| !l.is_empty())
take_while_nonempty(ls) ==
    LET empties == {i \in 1..Len(ls) : is_empty(ls[i])}
        n == IF empties = {} THEN Len(ls)
             ELSE (CHOOSE i \in empties : \A j \in empties : i <= j) - 1
    IN  SubSeq(ls, 1, n)

\* a panic of the running thread (an index out of range)
Panic == [tag |-> "Panic"]

\* A plausible slip: the method word is parsed first, before the version and
\* the header lines.
Request_from_tokens_method_first(tokens, rest) ==
    LET method_word == tokens[1]
        path == tokens[2]
        http_word == tokens[3]
        method == RequestMethod_from_str(method_word)
        stripped == strip_prefix(http_word, <<72, 84, 84, 80, 47>>)
    IN  IF IsErr(method)
        THEN Err(RequestParseError_of("MethodNotRecognized", method.err))
        ELSE IF stripped = None THEN Err(RequestParseError("InvalidHttpWord"))
        ELSE
        LET mm == split_once(stripped.val, 46)
            ma == IF mm = None THEN None ELSE parse_unsigned(mm.val[1])
            mi == IF mm = None THEN None ELSE parse_unsigned(mm.val[2])
        IN  IF mm = None \/ ma = None \/ mi = None
            THEN Err(RequestParseError("InvalidVersion"))
            ELSE
            LET hs == header_fold(Ok(<<>>), take_while_nonempty(rest))
            IN  IF IsErr(hs) THEN Err(RequestParseError_of("BadHeader", hs.err))
                ELSE Ok([method  |-> method.val,
                         path    |-> path,
                         headers |-> hs.val,
                         version |-> <<ma.val, mi.val>>])

\* A plausible slip: the two numbers of the version are stored the wrong way round.
Request_from_tokens_version_swapped(tokens, rest) ==
    LET method_word == tokens[1]
        path == tokens[2]
        http_word == tokens[3]
        stripped == strip_prefix(http_word, <<72, 84, 84, 80, 47>>)
    IN  IF stripped = None THEN Err(RequestParseError("InvalidHttpWord"))
        ELSE
        LET mm == split_once(stripped.val, 46)
            ma == IF mm = None THEN None ELSE parse_unsigned(mm.val[1])
            mi == IF mm = None THEN None ELSE parse_unsigned(mm.val[2])
        IN  IF mm = None \/ ma = None \/ mi = None
            THEN Err(RequestParseError("InvalidVersion"))
            ELSE
            LET hs == header_fold(Ok(<<>>), take_while_nonempty(rest))
                method == RequestMethod_from_str(method_word)
            IN  IF IsErr(hs) THEN Err(RequestParseError_of("BadHeader", hs.err))
                ELSE IF IsErr(method)
                THEN Err(RequestParseError_of("MethodNotRecognized", method.err))
                ELSE Ok([method  |-> method.val,
                         path    |-> path,
                         headers |-> hs.val,
                         version |-> <<mi.val, ma.val>>])

\* Request::from_str, from the http word on: version, headers, then method
Request_from_tokens(tokens, rest) ==
    LET method_word == tokens[1]
        path == tokens[2]
        http_word == tokens[3]
        stripped == strip_prefix(http_word, <<72, 84, 84, 80, 47>>)
    IN  IF stripped = None THEN Err(RequestParseError("InvalidHttpWord"))
        ELSE
        LET mm == split_once(stripped.val, 46)
            ma == IF mm = None THEN None ELSE parse_unsigned(mm.val[1])
            mi == IF mm = None THEN None ELSE parse_unsigned(mm.val[2])
        IN  IF mm = None \/ ma = None \/ mi = None
            THEN Err(RequestParseError("InvalidVersion"))
            ELSE
            LET hs == header_fold(Ok(<<>>), take_while_nonempty(rest))
                method == RequestMethod_from_str(method_word)
            IN  IF IsErr(hs) THEN Err(RequestParseError_of("BadHeader", hs.err))
                ELSE IF IsErr(method)
                THEN Err(RequestParseError_of("MethodNotRecognized", method.err))
                ELSE Ok([method  |-> method.val,
                         path    |-> path,
                         headers |-> hs.val,
                         version |-> <<ma.val, mi.val>>])

\* A plausible slip: a leading empty line is not skipped, it is read as the
\* start line.
Request_from_str_no_skip(s) ==
    LET ls == lines(s)
    IN  IF Len(ls) = 0 THEN Err(RequestParseError("EmptyRequest"))
        ELSE
        LET firstline == split_whitespace(ls[1])
            rest == SubSeq(ls, 2, Len(ls))
        IN  IF Len(firstline) < 3 THEN Panic
            ELSE Request_from_tokens(SubSeq(firstline, 1, 3), rest)

\* impl FromStr for Request
Request_from_str(s) ==
    LET ls == lines(s)
    IN  IF Len(ls) = 0 THEN Err(RequestParseError("EmptyRequest"))
        ELSE IF is_empty(ls[1]) /\ Len(ls) = 1
        THEN Err(RequestParseError("EmptyRequest"))
        ELSE
        LET skip == IF is_empty(ls[1]) THEN 2 ELSE 1
            firstline == split_whitespace(ls[skip])
            rest == SubSeq(ls, skip + 1, Len(ls))
        IN  \* firstline[..3] is taken before the match: fewer than three
            \* tokens is a slice index out of range
            IF Len(firstline) < 3 THEN Panic
            ELSE Request_from_tokens(SubSeq(firstline, 1, 3), rest)

(***************************************************************************)
(* request/error.rs                                                        *)
(***************************************************************************)
\* A plausible slip: the arm for whitespace before the colon is missing.
appropriate_response_only_501(e) ==
    IF e.variant = "MethodNotRecognized" THEN Some(501)
    ELSE None

\* A plausible slip: every key error of a header is answered with 400.
appropriate_response_any_key_error(e) ==
    IF e.variant = "MethodNotRecognized" THEN Some(501)
    ELSE IF e.variant = "BadHeader" /\ e.inner.variant = "Key" THEN Some(400)
    ELSE None

\* RequestParseError::appropriate_response: Some(the code of the Response)
appropriate_response(e) ==
    IF e.variant = "MethodNotRecognized" THEN Some(501)
    ELSE IF e.variant = "BadHeader" /\ e.inner = HeaderError_Key("ColonWhitespace")
    THEN Some(400)
    ELSE None

(***************************************************************************)
(* response.rs: the builder                                                *)
(***************************************************************************)
\* Response::header: HashMap::from([(Key::new(k)?, Value::new(v)?)])
Response_header(k, v) ==
    LET key_ == Key_new(k)
        val_ == Value_new(v)
    IN  IF IsErr(key_) THEN Err(HeaderError_Key(key_.err))
        ELSE IF IsErr(val_) THEN Err(HeaderError_Value(val_.err))
        ELSE Ok(map_insert(<<>>, key_.val, val_.val))

\* A plausible slip: a repeated key replaces the value instead of merging.
ResponseBuilder_header_overwrites(h, k, v) ==
    LET key_ == Key_new(k)
        val_ == Value_new(v)
    IN  IF IsErr(key_) THEN Err(HeaderError_Key(key_.err))
        ELSE IF IsErr(val_) THEN Err(HeaderError_Value(val_.err))
        ELSE Ok(map_insert(h, key_.val, val_.val))

\* ResponseBuilder<Incomplete>::header: the headers after the call, or the error
ResponseBuilder_header(h, k, v) ==
    LET key_ == Key_new(k)
    IN  IF IsErr(key_) THEN Err(HeaderError_Key(key_.err))
        ELSE IF key_.val \in DOMAIN h
        THEN LET a == Value_append(h[key_.val], v)
             IN  IF IsErr(a) THEN Err(HeaderError_Value(a.err))
                 ELSE Ok(map_insert(h, key_.val, a.val))
        ELSE LET val_ == Value_new(v)
             IN  IF IsErr(val_) THEN Err(HeaderError_Value(val_.err))
                 ELSE Ok(map_insert(h, key_.val, val_.val))

(***************************************************************************)
(* Inputs of the builder and the parser                                    *)
(***************************************************************************)
MaxHeaders == 2      \* most header() calls made on one builder

\* 200, 404 and a code outside the enumeration
Codes == {200, 404, 600}
\* "hi", "Host", "HOST", "a:b", "hi "
RawKeys == {<<104, 105>>, <<72, 111, 115, 116>>, <<72, 79, 83, 84>>, <<97, 58, 98>>, <<104, 105, 32>>}
\* "its me", " A ", "", "x\ny"
RawValues == {<<105, 116, 115, 32, 109, 101>>, <<32, 65, 32>>, <<>>, <<120, 10, 121>>}
\* "", "someBODY"
Bodies == {<<>>, <<115, 111, 109, 101, 66, 79, 68, 89>>}

\* the pairs written as the header lines of a request: the start line
\* "GET / HTTP/1.1", then `key:value` for each pair, every line ended by CRLF
RECURSIVE HeaderLines(_)
HeaderLines(ps) ==
    IF Len(ps) = 0 THEN <<>>
    ELSE ps[1][1] \o <<58>> \o ps[1][2] \o CRLF \o HeaderLines(Tail(ps))

RequestText(ps) == <<71, 69, 84, 32, 47, 32, 72, 84, 84, 80, 47, 49, 46, 49>> \o CRLF \o HeaderLines(ps)

(***************************************************************************)
(* The builder's operations and the parse, one action each                 *)
(***************************************************************************)
\* the value (Response or ResponseBuilder) has not been moved out or dropped
Live == out = None /\ typestate \in {"Response", "Incomplete", "Complete"}

\* Response::new(code)
New(code) ==
    /\ typestate = "None"
    /\ LET r == Response_new(code)
       IN  IF IsOk(r)
           THEN /\ response' = r.val
                /\ typestate' = "Response"
                /\ error' = None
           ELSE /\ response' = 0
                /\ typestate' = "Err"
                /\ error' = Some(r.err)
    /\ UNCHANGED <<headers, body, fed, out, request, keyVars, valueVars>>

\* Response::header(k, v): consumes the Response; a ResponseBuilder<Incomplete>
\* or the error
ResponseHeader(k, v) ==
    /\ Live
    /\ typestate = "Response"
    /\ Len(fed) < MaxHeaders
    /\ fed' = Append(fed, <<k, v>>)
    /\ LET r == Response_header(k, v)
       IN  IF IsOk(r)
           THEN /\ headers' = r.val
                /\ typestate' = "Incomplete"
                /\ error' = None
                /\ UNCHANGED response
           ELSE /\ headers' = <<>>
                /\ typestate' = "Err"
                /\ error' = Some(r.err)
                /\ response' = 0
    /\ body' = <<>>
    /\ UNCHANGED <<out, request, keyVars, valueVars>>

\* Response::body(b): a ResponseBuilder<Complete> with HashMap::new()
ResponseBody(b) ==
    /\ Live
    /\ typestate = "Response"
    /\ typestate' = "Complete"
    /\ body' = b
    /\ headers' = <<>>
    /\ UNCHANGED <<response, error, fed, out, request, keyVars, valueVars>>

\* ResponseBuilder<Incomplete>::header(k, v): consumes the builder
BuilderHeader(k, v) ==
    /\ Live
    /\ typestate = "Incomplete"
    /\ Len(fed) < MaxHeaders
    /\ fed' = Append(fed, <<k, v>>)
    /\ LET r == ResponseBuilder_header(headers, k, v)
       IN  IF IsOk(r)
           THEN /\ headers' = r.val
                /\ error' = None
                /\ UNCHANGED <<response, typestate>>
           ELSE /\ headers' = <<>>
                /\ typestate' = "Err"
                /\ error' = Some(r.err)
                /\ response' = 0
    /\ UNCHANGED <<body, out, request, keyVars, valueVars>>

\* A plausible slip: body() is offered in every builder state, so that a
\* complete builder can be given another body.
BuilderBody_in_any_state(b) ==
    /\ Live
    /\ typestate \in {"Incomplete", "Complete"}
    /\ typestate' = "Complete"
    /\ body' = b
    /\ UNCHANGED <<response, headers, error, fed, out, request, keyVars, valueVars>>

\* ResponseBuilder<Incomplete>::body(b)
BuilderBody(b) ==
    /\ Live
    /\ typestate = "Incomplete"
    /\ typestate' = "Complete"
    /\ body' = b
    /\ UNCHANGED <<response, headers, error, fed, out, request, keyVars, valueVars>>

\* Response::into_bytes(self)
ResponseIntoBytes ==
    /\ Live
    /\ typestate = "Response"
    /\ out' = Some(Response_into_bytes(response))
    /\ UNCHANGED <<response, typestate, headers, body, error, fed, request,
                   keyVars, valueVars>>

\* ResponseBuilder<S>::into_bytes(self), for either S
BuilderIntoBytes ==
    /\ Live
    /\ typestate \in {"Incomplete", "Complete"}
    /\ \E ord \in IterationOrders(headers) :
           out' = Some(into_bytes(response, headers, body, ord))
    /\ UNCHANGED <<response, typestate, headers, body, error, fed, request,
                   keyVars, valueVars>>

\* the pairs given to header() so far, sent as a request: text.parse::<Request>()
Parse ==
    /\ LET text == RequestText(fed)
       IN  request' = [text |-> text, result |-> Request_from_str(text)]
    /\ UNCHANGED <<response, typestate, headers, body, error, fed, out,
                   keyVars, valueVars>>

Init ==
    /\ BuilderIdle
    /\ raw = <<>>
    /\ KeyIdle
    /\ ValueIdle

Next ==
    \/ \E code \in Codes : New(code)
    \/ \E k \in RawKeys, v \in RawValues : ResponseHeader(k, v)
    \/ \E b \in Bodies : ResponseBody(b)
    \/ \E k \in RawKeys, v \in RawValues : BuilderHeader(k, v)
    \/ \E b \in Bodies : BuilderBody(b)
    \/ ResponseIntoBytes
    \/ BuilderIntoBytes
    \/ Parse

Spec == Init /\ [][Next]_vars

(***************************************************************************)
(* Inputs of the scalar constructors                                       *)
(***************************************************************************)
MaxStrLen   == 3     \* longest raw string given to Key::new / Value::new
MaxOtherLen == 2     \* longest string a key is compared with
MaxPieces   == 3     \* most raw strings merged into one value

\* every string over the alphabet A of at most n characters
StringsUpTo(A, n) == UNION {[1..k -> A] : k \in 0..n}

\* 'A' 'a' 'b' ' ' U+00E9 (non-ASCII letter) U+00A0 (non-ASCII whitespace)
KeyAlphabet == {65, 97, 98, 32, 233, 160}
\* 'A' 'a' 'b' ' '
OtherAlphabet == {65, 97, 98, 32}
\* 'A' 'a' ' ' CR LF NUL U+00E9 U+00A0
ValueAlphabet == {65, 97, 32, 13, 10, 0, 233, 160}
\* "B", " C  ", "", "a\rb", "\u{e9}"
AppendRaws == {<<66>>, <<32, 67, 32, 32>>, <<>>, <<97, 13, 98>>, <<233>>}

(***************************************************************************)
(* Key::new, the comparisons of a key, and Value::new on one raw string   *)
(***************************************************************************)
\* let k = Key::new(raw)
KeyNew ==
    /\ key = None
    /\ key' = Key_new(raw)
    /\ UNCHANGED <<raw, cmp, builderVars, valueVars>>

\* k == other (PartialEq<S>) and Key::new(raw) == Key::new(other)
KeyCompare(other) ==
    /\ IsOk(key)
    /\ cmp = None
    /\ cmp' = [other  |-> other,
               eq_str |-> Key_eq_str(key.val, other),
               eq_key |-> Key_eq(key, Key_new(other))]
    /\ UNCHANGED <<raw, key, builderVars, valueVars>>

\* let v = Value::new(raw)
ValueNew ==
    /\ value = None
    /\ value' = Value_new(raw)
    /\ pieces' = <<raw>>
    /\ UNCHANGED <<appendErr, keyVars, builderVars>>

\* v.append(r): on an error the value is left as it was
ValueAppend(r) ==
    /\ IsOk(value)
    /\ Len(pieces) < MaxPieces
    /\ LET res == Value_append(value.val, r)
       IN  IF IsOk(res)
           THEN /\ value' = res
                /\ pieces' = Append(pieces, r)
                /\ appendErr' = None
           ELSE /\ appendErr' = Some(res.err)
                /\ UNCHANGED <<value, pieces>>
    /\ UNCHANGED <<keyVars, builderVars>>

InitKey ==
    /\ raw \in StringsUpTo(KeyAlphabet, MaxStrLen)
    /\ KeyIdle
    /\ ValueIdle
    /\ BuilderIdle

NextKey ==
    \/ KeyNew
    \/ \E other \in StringsUpTo(OtherAlphabet, MaxOtherLen) : KeyCompare(other)
    \/ ValueNew

SpecKey == InitKey /\ [][NextKey]_vars

InitValue ==
    /\ raw \in StringsUpTo(ValueAlphabet, MaxStrLen)
    /\ KeyIdle
    /\ ValueIdle
    /\ BuilderIdle

NextValue ==
    \/ ValueNew
    \/ \E r \in AppendRaws : ValueAppend(r)

SpecValue == InitValue /\ [][NextValue]_vars

(***************************************************************************)
(* Value::new on two raw strings and the comparison of the two results     *)
(***************************************************************************)
\* Value::new(raw) == Value::new(other), the derived PartialEq
ValueCompare(other) ==
    /\ value # None
    /\ cmp = None
    /\ cmp' = [other |-> other,
               value |-> Value_new(other),
               eq    |-> (value = Value_new(other))]
    /\ UNCHANGED <<raw, key, valueVars, builderVars>>

\* "A", "A ", " A", "a", "AA", "A A", "a a ", " ", ""
CompareRaws ==
    {<<65>>,
     <<65, 32>>,
     <<32, 65>>,
     <<97>>,
     <<65, 65>>,
     <<65, 32, 65>>,
     <<97, 32, 97, 32>>,
     <<32>>,
     <<>>}

NextValuePair ==
    \/ ValueNew
    \/ \E other \in CompareRaws : ValueCompare(other)

SpecValuePair == InitValue /\ [][NextValuePair]_vars

(***************************************************************************)
(* Inputs of the request parser                                            *)
(***************************************************************************)
MaxTokens      == 4  \* most whitespace-separated words on a start line
MaxHeaderLines == 2  \* most header lines of a request text

\* "GET", "HEAD", "POST", "PUT", "DELETE", "CONNECT", "OPTIONS", "TRACE"
KnownMethodWords ==
    {<<71, 69, 84>>,
     <<72, 69, 65, 68>>,
     <<80, 79, 83, 84>>,
     <<80, 85, 84>>,
     <<68, 69, 76, 69, 84, 69>>,
     <<67, 79, 78, 78, 69, 67, 84>>,
     <<79, 80, 84, 73, 79, 78, 83>>,
     <<84, 82, 65, 67, 69>>}
\* the method literals and "get", "Get", "GETS"
MethodWords ==
    KnownMethodWords \cup {<<103, 101, 116>>,
     <<71, 101, 116>>,
     <<71, 69, 84, 83>>}
\* "/", "/a:b"
Targets == {<<47>>,
            <<47, 97, 58, 98>>}
\* the numbers written into a version word
VersionNumbers == {0, 1, 12}
\* "HTTP/a.b"
version_word(a, b) == <<72, 84, 84, 80, 47>> \o to_string(a) \o <<46>> \o to_string(b)
\* "http/1.1", "HTTP", "HTTP/2.0.1", "HTTP/11", "HTTP/a.1", "HTTP/1."
BadHttpWords ==
    {<<104, 116, 116, 112, 47, 49, 46, 49>>,
     <<72, 84, 84, 80>>,
     <<72, 84, 84, 80, 47, 50, 46, 48, 46, 49>>,
     <<72, 84, 84, 80, 47, 49, 49>>,
     <<72, 84, 84, 80, 47, 97, 46, 49>>,
     <<72, 84, 84, 80, 47, 49, 46>>}
\* "HTTP/+1.1", which str::parse reads as (1, 1)
SignedHttpWord == <<72, 84, 84, 80, 47, 43, 49, 46, 49>>
HttpWords ==
    {version_word(a, b) : a, b \in VersionNumbers} \cup BadHttpWords
        \cup {SignedHttpWord}

\* the words a start line may have at position i
WordsAt(i) ==
    IF i = 1 THEN MethodWords
    ELSE IF i = 2 THEN Targets
    ELSE IF i = 3 THEN HttpWords
    ELSE {<<120>>}  \* "x"

\* the start lines of exactly n words, as sequences of words
RECURSIVE WordSeqs(_)
WordSeqs(n) ==
    IF n = 0 THEN {<<>>}
    ELSE {Append(ws, w) : ws \in WordSeqs(n - 1), w \in WordsAt(n)}

StartLineWords == UNION {WordSeqs(n) : n \in 0..MaxTokens}

\* a few start lines: "GET / HTTP/1.1", "get / HTTP/1.1", "GET / HTTP/11",
\* "GET /"
FewStartLineWords ==
    {<<<<71, 69, 84>>, <<47>>, version_word(1, 1)>>,
     <<<<103, 101, 116>>, <<47>>, version_word(1, 1)>>,
     <<<<71, 69, 84>>, <<47>>, <<72, 84, 84, 80, 47, 49, 49>>>>,
     <<<<71, 69, 84>>, <<47>>>>}

\* "hi:its me", "host:github.com:80", "Hi: again", "nocolon", "hi :x", " hi :x", "\u{e9} :x", ":x", "hi:", "hi:a\0b"
HeaderLineTexts ==
    {<<104, 105, 58, 105, 116, 115, 32, 109, 101>>,
     <<104, 111, 115, 116, 58, 103, 105, 116, 104, 117, 98, 46, 99, 111, 109, 58, 56, 48>>,
     <<72, 105, 58, 32, 97, 103, 97, 105, 110>>,
     <<110, 111, 99, 111, 108, 111, 110>>,
     <<104, 105, 32, 58, 120>>,
     <<32, 104, 105, 32, 58, 120>>,
     <<233, 32, 58, 120>>,
     <<58, 120>>,
     <<104, 105, 58>>,
     <<104, 105, 58, 97, 0, 98>>}

\* the header blocks of at most MaxHeaderLines lines, as sequences of lines
HeaderBlocks == StringsUpTo(HeaderLineTexts, MaxHeaderLines)

\* a few header blocks: none, "hi:its me", "hi :x"
FewHeaderBlocks == {<<>>, <<<<104, 105, 58, 105, 116, 115, 32, 109, 101>>>>, <<<<104, 105, 32, 58, 120>>>>}

\* what follows the header block: nothing, the blank line, the blank line and
\* a body "x :y\r\n"
Tails == {<<>>, CRLF, CRLF \o <<120, 32, 58, 121>> \o CRLF}

\* an empty line in front or none, and the line ending: CRLF or a bare LF
Styles == {<<<<>>, CRLF>>, <<CRLF, CRLF>>, <<<<>>, <<10>>>>}

\* the lines, each ended by eol
RECURSIVE Lines(_, _)
Lines(ls, eol) ==
    IF Len(ls) = 0 THEN <<>> ELSE Head(ls) \o eol \o Lines(Tail(ls), eol)

\* a request text: a lead, the start line (its words separated by one space,
\* between the padding), the header lines and a tail
Text(lead, pad, words, block, eol, tail) ==
    lead \o pad \o join(words, <<32>>) \o pad \o eol \o Lines(block, eol) \o tail

\* the parts a request text is written from
Parts(lead, pad, words, block, eol, tail) ==
    [lead |-> lead, pad |-> pad, words |-> words, block |-> block,
     eol |-> eol, tail |-> tail]

TextOf(p) == Text(p.lead, p.pad, p.words, p.block, p.eol, p.tail)

(***************************************************************************)
(* Request::from_str on a request text, then appropriate_response          *)
(***************************************************************************)
\* raw.parse::<Request>()
ParseText ==
    /\ request = None
    /\ request' = [text |-> raw, result |-> Request_from_str(raw)]
    /\ UNCHANGED <<response, typestate, headers, body, error, fed, out,
                   keyVars, valueVars>>

\* err.appropriate_response() on the error of the parse
AppropriateResponse ==
    /\ request # None
    /\ IsErr(request.result)
    /\ "reply" \notin DOMAIN request
    /\ request' = [text   |-> request.text,
                   result |-> request.result,
                   reply  |-> appropriate_response(request.result.err)]
    /\ UNCHANGED <<response, typestate, headers, body, error, fed, out,
                   keyVars, valueVars>>

\* a request text, with the parts it was written from kept in `fed`: every
\* start line before a few header blocks, a few start lines before every
\* header block, and the empty text
InitParse ==
    /\ \/ \E pad \in {<<>>, <<32>>}, words \in StartLineWords,
             block \in FewHeaderBlocks, tail \in Tails :
             fed = Parts(<<>>, pad, words, block, CRLF, tail)
       \/ \E style \in Styles, words \in FewStartLineWords,
             block \in HeaderBlocks, tail \in {<<>>, CRLF \o <<120, 32, 58, 121>> \o CRLF} :
             fed = Parts(style[1], <<>>, words, block, style[2], tail)
       \/ fed = Parts(<<>>, <<>>, <<>>, <<>>, <<>>, <<>>)
    /\ raw = TextOf(fed)
    /\ response = 0
    /\ typestate = "None"
    /\ headers = <<>>
    /\ body = <<>>
    /\ error = None
    /\ out = None
    /\ request = None
    /\ KeyIdle
    /\ ValueIdle

\* request.method.is_safe() and .is_idempotent() on a parsed Request
MethodClass ==
    /\ request # None
    /\ IsOk(request.result)
    /\ cmp = None
    /\ cmp' = [method        |-> request.result.val.method,
               is_safe       |-> is_safe(request.result.val.method),
               is_idempotent |-> is_idempotent(request.result.val.method)]
    /\ UNCHANGED <<raw, key, valueVars, builderVars>>

NextParse ==
    \/ ParseText
    \/ AppropriateResponse
    \/ MethodClass

SpecParse == InitParse /\ [][NextParse]_vars

(***************************************************************************)
(* appropriate_response on every value of RequestParseError                *)
(***************************************************************************)
\* the values of HeaderError
HeaderErrors ==
    {HeaderError_NoSeparator}
    \cup {HeaderError_Key(e) :
            e \in {"NonAsciiChars", "EmptyString", "LeadingWhitespace", "ColonWhitespace"}}
    \cup {HeaderError_Value(e) : e \in {"NonAsciiChars", "EmptyString", "IllegalChars"}}

\* the values of RequestParseError
ParseErrors ==
    {RequestParseError(v) :
        v \in {"EmptyRequest", "MissingStartlineElements", "InvalidHttpWord",
               "InvalidVersion"}}
    \cup {RequestParseError_of("MethodNotRecognized", e) :
            e \in {"NotAsciiUppercase", "NotAMethod"}}
    \cup {RequestParseError_of("BadHeader", e) : e \in HeaderErrors}

\* e.appropriate_response() on an error value built by the caller
ReplyTo(e) ==
    /\ error = None
    /\ error' = Some([error |-> e, reply |-> appropriate_response(e)])
    /\ UNCHANGED <<response, typestate, headers, body, fed, out, request,
                   keyVars, valueVars>>

\* a few request texts: a few start lines before a few header blocks
InitReply ==
    /\ \E words \in {w \in FewStartLineWords : Len(w) = 3},
          block \in FewHeaderBlocks, tail \in Tails :
          fed = Parts(<<>>, <<>>, words, block, CRLF, tail)
    /\ raw = TextOf(fed)
    /\ response = 0
    /\ typestate = "None"
    /\ headers = <<>>
    /\ body = <<>>
    /\ error = None
    /\ out = None
    /\ request = None
    /\ KeyIdle
    /\ ValueIdle

NextReply ==
    \/ ParseText
    \/ AppropriateResponse
    \/ \E e \in ParseErrors : ReplyTo(e)

SpecReply == InitReply /\ [][NextReply]_vars

(***************************************************************************)
(* Response::new on every u16, then into_bytes                             *)
(***************************************************************************)
MaxCode == 65535     \* u16::MAX

\* the code that will be given to Response::new is kept in `fed`
InitCode ==
    /\ \E code \in 0..MaxCode : fed = <<code>>
    /\ response = 0
    /\ typestate = "None"
    /\ headers = <<>>
    /\ body = <<>>
    /\ error = None
    /\ out = None
    /\ request = None
    /\ raw = <<>>
    /\ KeyIdle
    /\ ValueIdle

NextCode ==
    \/ New(fed[1])
    \/ ResponseIntoBytes

SpecCode == InitCode /\ [][NextCode]_vars

(***************************************************************************)
(* Request::from_str on a request text and on a variant of it              *)
(***************************************************************************)
\* what may follow the blank line that ends the header block: nothing,
\* "x :y\r\n", "nocolon"
BlankTails == {CRLF, CRLF \o <<120, 32, 58, 121>> \o CRLF, CRLF \o <<110, 111, 99, 111, 108, 111, 110>>}

\* the variants of the parts p: an empty line more in front, or another text
\* after the blank line
Variants(p) ==
    {[p EXCEPT !.lead = e \o p.lead] : e \in {CRLF, <<10>>}}
    \cup (IF p.tail \in BlankTails
          THEN {[p EXCEPT !.tail = t] : t \in BlankTails \ {p.tail}}
          ELSE {})

\* other.parse::<Request>() for a variant of the text parsed before
ParseVariant(p) ==
    /\ request # None
    /\ cmp = None
    /\ cmp' = [parts |-> p, result |-> Request_from_str(TextOf(p))]
    /\ UNCHANGED <<raw, key, valueVars, builderVars>>

\* a few start lines before every header block, and the texts without a
\* start line: "", "\r\n", "\n"
InitPair ==
    /\ \/ \E style \in Styles, words \in FewStartLineWords,
             block \in HeaderBlocks, tail \in Tails :
             fed = Parts(style[1], <<>>, words, block, style[2], tail)
       \/ \E lead \in {<<>>, CRLF, <<10>>} :
             fed = Parts(lead, <<>>, <<>>, <<>>, <<>>, <<>>)
    /\ raw = TextOf(fed)
    /\ response = 0
    /\ typestate = "None"
    /\ headers = <<>>
    /\ body = <<>>
    /\ error = None
    /\ out = None
    /\ request = None
    /\ KeyIdle
    /\ ValueIdle

NextPair ==
    \/ ParseText
    \/ \E p \in Variants(fed) : ParseVariant(p)

SpecParsePair == InitPair /\ [][NextPair]_vars

(***************************************************************************)
(* header() with keys and values that hold line breaks, then into_bytes    *)
(***************************************************************************)
\* "hi", "Host", "a\nb", "x\r\n\r\ny"
LineKeys == {<<104, 105>>, <<72, 111, 115, 116>>, <<97, 10, 98>>, <<120, 13, 10, 13, 10, 121>>}
\* "its me", "x\ny", "a\rb"
LineValues == {<<105, 116, 115, 32, 109, 101>>, <<120, 10, 121>>, <<97, 13, 98>>}

InitLines ==
    /\ BuilderIdle
    /\ raw = <<>>
    /\ KeyIdle
    /\ ValueIdle

NextLines ==
    \/ New(200)
    \/ \E k \in LineKeys, v \in LineValues : ResponseHeader(k, v)
    \/ \E b \in Bodies : ResponseBody(b)
    \/ \E k \in LineKeys, v \in LineValues : BuilderHeader(k, v)
    \/ \E b \in Bodies : BuilderBody(b)
    \/ ResponseIntoBytes
    \/ BuilderIntoBytes

SpecLines == InitLines /\ [][NextLines]_vars

(***************************************************************************)
(* Properties                                                              *)
(***************************************************************************)
\* the text "host"
HostKey == <<104, 111, 115, 116>>

\* the builder holds a value that every header() call so far has accepted
Built == typestate \in {"Response", "Incomplete", "Complete"}

\* c is whitespace at an end of s, for a non-empty s
StartsWithSpace(s) == is_whitespace(s[1])
EndsWithSpace(s) == is_whitespace(s[Len(s)])

\* the rules of a stored key and of a stored value, and of a map of them
ValidKeyText(k) ==
    /\ Len(k) > 0
    /\ \A i \in 1..Len(k) : k[i] < 128 /\ k[i] \notin 65..90
    /\ ~StartsWithSpace(k)
    /\ ~EndsWithSpace(k)

ValidValueText(v) ==
    /\ Len(v) > 0
    /\ \A i \in 1..Len(v) : v[i] < 128 /\ v[i] \notin {13, 10, 0}
    /\ ~StartsWithSpace(v)
    /\ ~EndsWithSpace(v)

ValidHeaderMap(h) ==
    /\ \A k \in DOMAIN h : ValidKeyText(k) /\ ValidValueText(h[k])
    /\ \A k1, k2 \in DOMAIN h :
           to_ascii_lowercase(k1) = to_ascii_lowercase(k2) => k1 = k2

\* C1: after any sequence of successful header insertions, through the
\* builder's header() or through the header lines of a parsed request, every
\* key of the map is a non-empty lower-case ASCII string without whitespace at
\* its ends, no two keys are equal ignoring case, and every value (merged
\* ones included) is a non-empty ASCII string without whitespace at its ends
\* and without CR, LF or NUL.
C1_HeaderMapValid ==
    /\ ValidHeaderMap(headers)
    /\ (request # None /\ IsOk(request.result))
           => ValidHeaderMap(request.result.val.headers)

\* C1: "Host" then "HOST" were inserted: one key `host` with a merged value,
\* in the builder and in the parsed request
C1_Witness ==
    /\ typestate = "Incomplete"
    /\ Len(fed) = 2
    /\ fed[1][1] # fed[2][1]
    /\ DOMAIN headers = {HostKey}
    /\ \E i \in 1..Len(headers[HostKey]) : headers[HostKey][i] = 44
    /\ request # None
    /\ IsOk(request.result)
    /\ DOMAIN request.result.val.headers = {HostKey}

\* C2: the builder moves Response -> Incomplete -> Complete only: a header()
\* step starts from Response or Incomplete and gives Incomplete (or fails),
\* body() from Response gives Complete with no headers, body() from Incomplete
\* gives Complete with the headers accumulated so far, and once the builder
\* is Complete no step changes its stage, headers or body.
C2_BuilderOrder ==
    [][ /\ typestate' # typestate =>
              <<typestate, typestate'>> \in
                  {<<"None", "Response">>, <<"None", "Err">>,
                   <<"Response", "Incomplete">>, <<"Response", "Complete">>,
                   <<"Response", "Err">>,
                   <<"Incomplete", "Complete">>, <<"Incomplete", "Err">>}
        /\ fed' # fed =>
              /\ typestate \in {"Response", "Incomplete"}
              /\ typestate' \in {"Incomplete", "Err"}
        /\ (typestate = "Response" /\ typestate' = "Complete") =>
              /\ DOMAIN headers' = {}
              /\ fed' = fed
        /\ (typestate = "Incomplete" /\ typestate' = "Complete") =>
              /\ headers' = headers
              /\ fed' = fed
        /\ typestate = "Complete" =>
              /\ typestate' = "Complete"
              /\ headers' = headers
              /\ body' = body
              /\ fed' = fed
      ]_vars

\* C2: a builder that went through header() and body() and was then serialized
C2_Witness ==
    /\ typestate = "Complete"
    /\ DOMAIN headers # {}
    /\ Len(body) > 0
    /\ out # None

\* some header() call so far was given a key that reads `host` in some letter case
HostWasGiven ==
    \E i \in 1..Len(fed) :
        /\ Len(fed[i][1]) = 4
        /\ \A j \in 1..4 : fed[i][1][j] \in {HostKey[j], HostKey[j] - 32}

\* the first eight bytes of the serialization, "HTTP/1.1" or "HTTP/1.0"
VersionWritten == SubSeq(out.val, 1, 8)

\* C3: for a builder reached by any sequence of accepted header calls,
\* max_version() and the version written by into_bytes() are 1.1 exactly when
\* the map has the key `host`, which is exactly when some call gave `host` in
\* any letter case; otherwise they are 1.0.  A bare status code writes 1.0.
C3_VersionFollowsHost ==
    /\ typestate \in {"Incomplete", "Complete"} =>
          /\ (HostKey \in DOMAIN headers) <=> HostWasGiven
          /\ max_version(headers) = IF HostWasGiven THEN <<1, 1>> ELSE <<1, 0>>
          /\ out # None =>
                VersionWritten = IF HostWasGiven THEN <<72, 84, 84, 80, 47, 49, 46, 49>> ELSE <<72, 84, 84, 80, 47, 49, 46, 48>>
    /\ (typestate = "Response" /\ out # None) => VersionWritten = <<72, 84, 84, 80, 47, 49, 46, 48>>

\* C3: `HOST` given in upper case as the second header, then serialized as 1.1
C3_Witness ==
    /\ typestate = "Complete"
    /\ Len(fed) = 2
    /\ fed[1][1] = <<104, 105>>
    /\ fed[2][1] = <<72, 79, 83, 84>>
    /\ out # None
    /\ VersionWritten = <<72, 84, 84, 80, 47, 49, 46, 49>>

\* the concatenation of a sequence of strings
RECURSIVE Concat(_)
Concat(strs) == IF Len(strs) = 0 THEN <<>> ELSE Head(strs) \o Concat(Tail(strs))

\* the layout of a serialized response: the start line, "\r\n{key}:{value}"
\* for the entries in the order ord, "\r\n\r\n", the body
StartLineText(minor, code) ==
    <<72, 84, 84, 80, 47, 49, 46>> \o <<48 + minor>> \o <<32>> \o to_string(code) \o <<32>>
        \o standard_phrase(code).val

Layout(minor, code, h, b, ord) ==
    StartLineText(minor, code)
        \o Concat([i \in 1..Len(ord) |-> <<13, 10>> \o ord[i] \o <<58>> \o h[ord[i]]])
        \o <<13, 10, 13, 10>> \o b

\* C4: into_bytes() of a builder in any stage is the start line, then
\* "\r\n{key}:{value}" once for each entry of the map (lower-case key, nothing
\* after the colon but the value), then "\r\n\r\n", then the body unchanged
\* (empty when none was set); with no headers the start line is followed
\* directly by "\r\n\r\n".
C4_SerializedLayout ==
    out # None =>
        LET minor == IF HostKey \in DOMAIN headers THEN 1 ELSE 0
        IN  /\ \E ord \in IterationOrders(headers) :
                   out.val = Layout(minor, response, headers, body, ord)
            /\ DOMAIN headers = {} =>
                   out.val = StartLineText(0, response) \o <<13, 10, 13, 10>> \o body
            /\ typestate \in {"Response", "Incomplete"} => Len(body) = 0

\* C4: two distinct headers and a body were serialized
C4_Witness ==
    /\ out # None
    /\ typestate = "Complete"
    /\ Cardinality(DOMAIN headers) = 2
    /\ Len(body) > 0

\* status 200, the single header ("hi", "its me"), the body "someBODY", serialized
C5_Case ==
    /\ response = 200
    /\ typestate = "Complete"
    /\ fed = << <<<<104, 105>>, <<105, 116, 115, 32, 109, 101>>>> >>
    /\ body = <<115, 111, 109, 101, 66, 79, 68, 89>>
    /\ out # None

\* C5 as claimed: that response serializes to
\* "HTTP/1.1 200 OK\r\nhi:its me\r\n\r\nsomeBODY".
C5_AsClaimed ==
    C5_Case => out.val = <<72, 84, 84, 80, 47, 49, 46, 49, 32, 50, 48, 48, 32, 79, 75, 13, 10, 104, 105, 58, 105, 116, 115, 32, 109, 101, 13, 10, 13, 10, 115, 111, 109, 101, 66, 79, 68, 89>>

\* C5: that response serializes to "HTTP/1.0 200 OK\r\nhi:its me\r\n\r\nsomeBODY":
\* without a `host` header the version written is 1.0.
C5_SerializedExample ==
    C5_Case => out.val = <<72, 84, 84, 80, 47, 49, 46, 48, 32, 50, 48, 48, 32, 79, 75, 13, 10, 104, 105, 58, 105, 116, 115, 32, 109, 101, 13, 10, 13, 10, 115, 111, 109, 101, 66, 79, 68, 89>>

\* C5: the response of the example was built and serialized
C5_Witness == C5_Case

\* the pieces trimmed and joined by commas, in the order given
RECURSIVE TrimmedJoin(_)
TrimmedJoin(rs) ==
    IF Len(rs) = 1 THEN trim(rs[1])
    ELSE TrimmedJoin(SubSeq(rs, 1, Len(rs) - 1)) \o <<44>> \o trim(rs[Len(rs)])

\* C6: a value constructed from r0 and then appended to with r1..rn (each
\* append accepted) equals trim(r0),trim(r1),...,trim(rn), in that order.
C6_AppendJoinsInOrder ==
    (value # None /\ IsOk(value)) => value.val = TrimmedJoin(pieces)

\* C6: "A", then "B", then " C  " give "A,B,C"
C6_Witness ==
    /\ pieces = <<<<65>>, <<66>>, <<32, 67, 32, 32>>>>
    /\ IsOk(value)
    /\ value.val = <<65, 44, 66, 44, 67>>

\* the request was parsed from the pairs given to header() so far
ParsedSamePairs == request # None /\ request.text = RequestText(fed)

\* the builder and the parser ended alike: the same map, or the same HeaderError
SameOutcome ==
    /\ Built =>
          /\ IsOk(request.result)
          /\ request.result.val.headers = headers
    /\ (typestate = "Err" /\ error.val.variant # "InvalidCode") =>
          /\ IsErr(request.result)
          /\ request.result.err = RequestParseError_of("BadHeader", error.val)

\* C7 as claimed: for every sequence of (key, raw value) pairs, the header
\* lines `key:value` given to the request parser and the pairs given one by
\* one to header() end alike: the same map, or the same HeaderError at the
\* same pair.
C7_AsClaimed ==
    ParsedSamePairs => SameOutcome

\* each pair is one header line that splits at its own colon: the key has no
\* ':' and neither the key nor the value has a line feed
OneLineEach ==
    \A i \in 1..Len(fed) :
        /\ \A j \in 1..Len(fed[i][1]) : fed[i][1][j] \notin {58, 10}
        /\ \A j \in 1..Len(fed[i][2]) : fed[i][2][j] # 10

\* C7: for every sequence of (key, raw value) pairs in which no key has a ':'
\* and no key or value has a line feed, the parser on the lines `key:value`
\* and header() on the pairs end alike: the same map, or the same HeaderError
\* at the same pair.
C7_SameOutcomeOnLines ==
    (ParsedSamePairs /\ OneLineEach) => SameOutcome

\* C7: the same key twice, merged alike on both sides
C7_Witness ==
    /\ ParsedSamePairs
    /\ OneLineEach
    /\ typestate = "Incomplete"
    /\ Len(fed) = 2
    /\ Cardinality(DOMAIN headers) = 1
    /\ IsOk(request.result)

\* the lower-case form of a string, character by character
LowerOf(s, t) ==
    /\ Len(t) = Len(s)
    /\ \A i \in 1..Len(s) :
           t[i] = IF s[i] \in 65..90 THEN s[i] + 32 ELSE s[i]

\* a non-empty ASCII string without whitespace at its ends
PlainKeyText(s) ==
    /\ Len(s) > 0
    /\ \A i \in 1..Len(s) : s[i] < 128
    /\ ~StartsWithSpace(s)
    /\ ~EndsWithSpace(s)

\* two strings that differ at most in the case of their ASCII letters
SameIgnoringCase(s, t) ==
    /\ Len(s) = Len(t)
    /\ \A i \in 1..Len(s) :
           \/ s[i] = t[i]
           \/ s[i] \in 65..90 /\ t[i] = s[i] + 32
           \/ t[i] \in 65..90 /\ s[i] = t[i] + 32

\* C8: Key::new accepts every non-empty ASCII string without whitespace at its
\* ends and stores its lower-case form; keys made from strings that differ
\* only in letter case are equal; a key equals a plain string exactly when
\* the string's lower-case form is the stored text, so not when the string
\* has extra whitespace around it.
C8_KeyLowercaseAndEquality ==
    /\ (key # None /\ PlainKeyText(raw)) =>
          /\ IsOk(key)
          /\ LowerOf(raw, key.val)
    /\ cmp # None =>
          /\ (PlainKeyText(cmp.other) /\ SameIgnoringCase(raw, cmp.other))
                 => cmp.eq_key
          /\ cmp.eq_str <=> SameIgnoringCase(raw, cmp.other)
          /\ (Len(cmp.other) > 0
                  /\ (StartsWithSpace(cmp.other) \/ EndsWithSpace(cmp.other)))
                 => ~cmp.eq_str

\* C8: "aA" was made a key and found equal to "Aa", as a string and as a key
C8_Witness ==
    /\ raw = <<97, 65>>
    /\ IsOk(key)
    /\ key.val = <<97, 97>>
    /\ cmp # None
    /\ cmp.other = <<65, 97>>
    /\ cmp.eq_str
    /\ cmp.eq_key

\* the four conditions on a raw key
KeyNonAscii(s) == \E i \in 1..Len(s) : s[i] >= 128
KeyEmpty(s) == Len(s) = 0
KeyLeadingSpace(s) == Len(s) > 0 /\ StartsWithSpace(s)
KeyTrailingSpace(s) == Len(s) > 0 /\ EndsWithSpace(s)

\* C9: Key::new reports exactly one error, the first that applies of
\* NonAsciiChars, EmptyString, LeadingWhitespace, ColonWhitespace (trailing
\* whitespace), and it fails exactly when one of the four applies.
C9_KeyErrorPrecedence ==
    key # None =>
        /\ IsErr(key) <=> \/ KeyNonAscii(raw) \/ KeyEmpty(raw)
                          \/ KeyLeadingSpace(raw) \/ KeyTrailingSpace(raw)
        /\ IsErr(key) =>
              key.err = IF KeyNonAscii(raw) THEN "NonAsciiChars"
                        ELSE IF KeyEmpty(raw) THEN "EmptyString"
                        ELSE IF KeyLeadingSpace(raw) THEN "LeadingWhitespace"
                        ELSE "ColonWhitespace"

\* C9: " a " has whitespace at both ends and is reported as LeadingWhitespace
C9_Witness ==
    /\ raw = <<32, 97, 32>>
    /\ key = Err("LeadingWhitespace")

\* a string of whitespace only, the empty string included
AllWhitespace(s) == \A i \in 1..Len(s) : is_whitespace(s[i])

\* C10 as claimed: for every string that is empty or whitespace only, Key::new
\* and Value::new both fail with EmptyString.
C10_AsClaimed ==
    AllWhitespace(raw) =>
        /\ key # None => key = Err("EmptyString")
        /\ value # None => value = Err("EmptyString")

\* C10: for every string that is empty or whitespace only, Value::new fails
\* with EmptyString and Key::new fails too: with EmptyString for the empty
\* string, and for a non-empty one with LeadingWhitespace (NonAsciiChars when
\* one of its whitespace characters is not ASCII).
C10_WhitespaceOnlyRejected ==
    AllWhitespace(raw) =>
        /\ key # None =>
              key = IF Len(raw) = 0 THEN Err("EmptyString")
                    ELSE IF KeyNonAscii(raw) THEN Err("NonAsciiChars")
                    ELSE Err("LeadingWhitespace")
        /\ value # None => value = Err("EmptyString")

\* C10: two spaces were given to both constructors
C10_Witness ==
    /\ raw = <<32, 32>>
    /\ key = Err("LeadingWhitespace")
    /\ value = Err("EmptyString")

\* the positions of s that hold a non-whitespace character
NonWhitespaceAt(s) == {i \in 1..Len(s) : ~is_whitespace(s[i])}

\* position i of s is not in the leading or trailing whitespace of s
Inside(s, i) ==
    \E a, b \in NonWhitespaceAt(s) : a <= i /\ i <= b

\* s has a CR, LF or NUL outside its leading and trailing whitespace
IllegalInside(s) ==
    \E i \in 1..Len(s) : s[i] \in {13, 10, 0} /\ Inside(s, i)

\* s without its leading and trailing whitespace is ASCII
AsciiInside(s) ==
    \A i \in 1..Len(s) : Inside(s, i) => s[i] < 128

\* C11 as claimed: every raw value string that contains a CR, LF or NUL at any
\* position (first, interior or last) makes Value::new fail with IllegalChars.
C11_AsClaimed ==
    (value # None /\ contains(raw, {13, 10, 0})) => value = Err("IllegalChars")

\* C11: every raw value string that is ASCII apart from its leading and
\* trailing whitespace and has a CR, LF or NUL outside that whitespace makes
\* Value::new fail with IllegalChars, and Value::new fails with IllegalChars
\* for no other string.
C11_IllegalCharsRejected ==
    value # None =>
        /\ (AsciiInside(raw) /\ IllegalInside(raw)) => value = Err("IllegalChars")
        /\ value = Err("IllegalChars") => IllegalInside(raw)

\* C11: "A\nA", a line feed between two letters, was rejected
C11_Witness ==
    /\ raw = <<65, 10, 65>>
    /\ value = Err("IllegalChars")

\* s without its leading and trailing whitespace
Trimmed(s) ==
    LET nw == NonWhitespaceAt(s)
    IN  IF nw = {} THEN <<>>
        ELSE SubSeq(s, CHOOSE a \in nw : \A x \in nw : a <= x,
                       CHOOSE b \in nw : \A x \in nw : x <= b)

\* C12: Value::new validates the raw string without its leading and trailing
\* whitespace, in the order NonAsciiChars, EmptyString, IllegalChars, and on
\* success stores exactly that trimmed text; two raw strings with the same
\* trimmed text give equal results, and two accepted raw strings whose trimmed
\* texts differ (in interior whitespace, in letter case) give unequal values.
C12_TrimThenValidate ==
    /\ value # None /\ Len(pieces) = 1 =>
          value = IF ~AsciiInside(raw) THEN Err("NonAsciiChars")
                  ELSE IF AllWhitespace(raw) THEN Err("EmptyString")
                  ELSE IF IllegalInside(raw) THEN Err("IllegalChars")
                  ELSE Ok(Trimmed(raw))
    /\ cmp # None =>
          /\ Trimmed(raw) = Trimmed(cmp.other) => cmp.eq
          /\ (IsOk(value) /\ IsOk(cmp.value) /\ Trimmed(raw) # Trimmed(cmp.other))
                => ~cmp.eq

\* C12: " A " was stored as "A" and found equal to the value made from "A "
C12_Witness ==
    /\ raw = <<32, 65, 32>>
    /\ value = Ok(<<65>>)
    /\ cmp # None
    /\ cmp.other = <<65, 32>>
    /\ cmp.eq

(***************************************************************************)
(* What a request text is, said of the parts it was written from          *)
(***************************************************************************)
\* the method literals with their variants of RequestMethod
KnownMethods ==
    {<<<<71, 69, 84>>, "Get">>,
     <<<<72, 69, 65, 68>>, "Head">>,
     <<<<80, 79, 83, 84>>, "Post">>,
     <<<<80, 85, 84>>, "Put">>,
     <<<<68, 69, 76, 69, 84, 69>>, "Delete">>,
     <<<<67, 79, 78, 78, 69, 67, 84>>, "Connect">>,
     <<<<79, 80, 84, 73, 79, 78, 83>>, "Options">>,
     <<<<84, 82, 65, 67, 69>>, "Trace">>}

\* w begins with "HTTP/"
BeginsWithHttp(w) ==
    Len(w) >= 5 /\ SubSeq(w, 1, 5) = <<72, 84, 84, 80, 47>>

\* s is a decimal integer: digits, after an optional plus sign
DecimalInteger(s) ==
    LET d == IF Len(s) > 0 /\ s[1] = 43 THEN Tail(s) ELSE s
    IN  Len(d) > 0 /\ \A i \in 1..Len(d) : d[i] \in 48..57

\* s is two decimal integers separated by its only '.'
TwoIntegers(s) ==
    \E i \in 1..Len(s) :
        /\ s[i] = 46
        /\ \A j \in 1..Len(s) : s[j] = 46 => j = i
        /\ DecimalInteger(SubSeq(s, 1, i - 1))
        /\ DecimalInteger(SubSeq(s, i + 1, Len(s)))

\* what the claim says parsing the method word w yields
MethodOutcome(w) ==
    IF \E i \in 1..Len(w) : w[i] \notin 65..90 THEN Err("NotAsciiUppercase")
    ELSE IF \E km \in KnownMethods : km[1] = w
    THEN Ok((CHOOSE km \in KnownMethods : km[1] = w)[2])
    ELSE Err("NotAMethod")

\* the error of the header line l on its own, None when the line is valid
LineError(l) ==
    IF \A i \in 1..Len(l) : l[i] # 58 THEN Some(HeaderError_NoSeparator)
    ELSE LET c == CHOOSE i \in 1..Len(l) :
                     l[i] = 58 /\ \A j \in 1..(i - 1) : l[j] # 58
             k == SubSeq(l, 1, c - 1)
             v == SubSeq(l, c + 1, Len(l))
         IN  IF KeyNonAscii(k) THEN Some(HeaderError_Key("NonAsciiChars"))
             ELSE IF KeyEmpty(k) THEN Some(HeaderError_Key("EmptyString"))
             ELSE IF KeyLeadingSpace(k) THEN Some(HeaderError_Key("LeadingWhitespace"))
             ELSE IF KeyTrailingSpace(k) THEN Some(HeaderError_Key("ColonWhitespace"))
             ELSE IF ~AsciiInside(v) THEN Some(HeaderError_Value("NonAsciiChars"))
             ELSE IF AllWhitespace(v) THEN Some(HeaderError_Value("EmptyString"))
             ELSE IF IllegalInside(v) THEN Some(HeaderError_Value("IllegalChars"))
             ELSE None

\* the start line written from the parts p is the first line of the text or
\* follows one empty line, and is not empty itself
StartLineInPlace(p) == Len(p.words) > 0 \/ Len(p.pad) > 0

\* the parse of the text written from the parts p gets as far as the header
\* lines: three words or more on the start line, the third a valid version word
ReachesHeaders(p) ==
    /\ StartLineInPlace(p)
    /\ Len(p.words) >= 3
    /\ BeginsWithHttp(p.words[3])
    /\ TwoIntegers(SubSeq(p.words[3], 6, Len(p.words[3])))

\* the positions of the invalid lines of a header block
InvalidLines(block) == {i \in 1..Len(block) : LineError(block[i]) # None}

\* C13: for every known method literal M, whitespace-free target T and decimal
\* integers a and b, the text `M T HTTP/a.b` followed by a line break, with or
\* without a blank line after it, parses to a Request with the variant of M as
\* method, T as path, (a, b) as version and no headers.
C13_StartLineOnlyParses ==
    (/\ request # None
     /\ fed.lead = <<>> /\ fed.pad = <<>> /\ Len(fed.words) = 3
     /\ fed.block = <<>> /\ fed.tail \in {<<>>, CRLF}) =>
        \A km \in KnownMethods, a, b \in VersionNumbers :
            (fed.words[1] = km[1] /\ fed.words[3] = version_word(a, b)) =>
                request.result = Ok([method  |-> km[2],
                                     path    |-> fed.words[2],
                                     headers |-> <<>>,
                                     version |-> <<a, b>>])

\* C13: "DELETE /a:b HTTP/12.0" and a blank line were parsed
C13_Witness ==
    /\ request # None
    /\ request.text = <<68, 69, 76, 69, 84, 69, 32, 47, 97, 58, 98, 32, 72, 84, 84, 80, 47, 49, 50, 46, 48, 13, 10, 13, 10>>
    /\ request.result = Ok([method |-> "Delete", path |-> <<47, 97, 58, 98>>,
                            headers |-> <<>>, version |-> <<12, 0>>])

\* C14 as claimed: every request text whose start line has fewer than three
\* whitespace-separated words (none, one or two, a start line of only
\* whitespace included) parses to the error MissingStartlineElements.
C14_AsClaimed ==
    (request # None /\ StartLineInPlace(fed) /\ Len(fed.words) < 3) =>
        request.result = Err(RequestParseError("MissingStartlineElements"))

\* C15 as claimed: a request text whose start line has four or more
\* whitespace-separated words never parses to a Request.
C15_AsClaimed ==
    (request # None /\ Len(fed.words) >= 4) => ~IsOk(request.result)

\* C16: with a valid method and target on the start line, a third word that
\* does not begin with "HTTP/" makes the parse fail with InvalidHttpWord, and
\* one that does, but whose remainder is not two decimal integers separated by
\* a single '.', makes it fail with InvalidVersion.
C16_HttpWordThenVersion ==
    (/\ request # None
     /\ StartLineInPlace(fed) /\ Len(fed.words) = 3
     /\ IsOk(MethodOutcome(fed.words[1]))) =>
        LET w == fed.words[3]
        IN  /\ ~BeginsWithHttp(w) =>
                  request.result = Err(RequestParseError("InvalidHttpWord"))
            /\ (BeginsWithHttp(w) /\ ~TwoIntegers(SubSeq(w, 6, Len(w)))) =>
                  request.result = Err(RequestParseError("InvalidVersion"))

\* C16: "PUT / HTTP/2.0.1" was refused for its version
C16_Witness ==
    /\ request # None
    /\ request.text = <<80, 85, 84, 32, 47, 32, 72, 84, 84, 80, 47, 50, 46, 48, 46, 49, 13, 10>>
    /\ request.result = Err(RequestParseError("InvalidVersion"))

\* C17: a method word with a character that is not an ASCII upper-case letter
\* yields NotAsciiUppercase, any other word that is not one of the eight
\* literals yields NotAMethod, and a literal yields its variant; the request
\* parse, when it comes to the method word (the version word and the header
\* lines being valid), returns either error wrapped as MethodNotRecognized.
C17_MethodWord ==
    (/\ request # None
     /\ ReachesHeaders(fed) /\ Len(fed.words) = 3
     /\ InvalidLines(fed.block) = {}) =>
        LET method == MethodOutcome(fed.words[1])
        IN  IF IsOk(method)
            THEN /\ IsOk(request.result)
                 /\ request.result.val.method = method.val
            ELSE request.result =
                    Err(RequestParseError_of("MethodNotRecognized", method.err))

\* C17: "<<71, 69, 84, 83, 32, 47, 32, 72, 84, 84, 80, 47, 49, 46, 49, 13, 10>> / HTTP/1.1" was refused as no method
C17_Witness ==
    /\ request # None
    /\ request.text = <<71, 69, 84, 83, 32, 47, 32, 72, 84, 84, 80, 47, 49, 46, 49, 13, 10>>
    /\ request.result =
          Err(RequestParseError_of("MethodNotRecognized", "NotAMethod"))

\* C18: once the parse has reached the header lines, the first invalid header
\* line in text order decides: the parse returns BadHeader with that line's
\* error whatever the lines after it are, and it returns BadHeader only when
\* a header line before the blank line is invalid.
C18_FirstInvalidHeaderDecides ==
    (request # None /\ ReachesHeaders(fed)) =>
        LET bad == InvalidLines(fed.block)
        IN  IF bad # {}
            THEN LET first == CHOOSE i \in bad : \A j \in bad : i <= j
                 IN  request.result =
                        Err(RequestParseError_of("BadHeader",
                                                 LineError(fed.block[first]).val))
            ELSE ~(IsErr(request.result) /\ request.result.err.variant = "BadHeader")

\* C18: "nocolon" came before "hi :x" and before a valid line, and decided
C18_Witness ==
    /\ request # None
    /\ ReachesHeaders(fed)
    /\ Len(fed.block) = 2
    /\ fed.block[1] = <<110, 111, 99, 111, 108, 111, 110>>
    /\ fed.block[2] = <<104, 105, 32, 58, 120>>
    /\ request.result = Err(RequestParseError_of("BadHeader", HeaderError_NoSeparator))

\* the position of the first colon of a line that has one
FirstColon(l) ==
    CHOOSE i \in 1..Len(l) : l[i] = 58 /\ \A j \in 1..(i - 1) : l[j] # 58

\* the text before the first colon, and everything after it
KeyPart(l) == SubSeq(l, 1, FirstColon(l) - 1)
ValuePart(l) == SubSeq(l, FirstColon(l) + 1, Len(l))

\* the value parts of the lines of block whose key part is k in any letter
\* case, in text order
SameKeyValues(block, k) ==
    SelectSeq(block, LAMBDA l : to_ascii_lowercase(KeyPart(l)) = k)

RECURSIVE ValueParts(_)
ValueParts(ls) ==
    IF Len(ls) = 0 THEN <<>> ELSE <<ValuePart(Head(ls))>> \o ValueParts(Tail(ls))

\* C19: every header line is split at its first colon only: the text before
\* it is the key and everything after it, further colons included, is the raw
\* value that is trimmed and stored (merged in text order under a repeated
\* key); a line without a colon, after valid lines only, makes the parse fail
\* with BadHeader(NoSeparator).
C19_SplitAtFirstColon ==
    (request # None /\ ReachesHeaders(fed)) =>
        /\ IsOk(request.result) =>
              LET h == request.result.val.headers
              IN  /\ DOMAIN h =
                        {to_ascii_lowercase(KeyPart(fed.block[i])) :
                            i \in 1..Len(fed.block)}
                  /\ \A k \in DOMAIN h :
                        h[k] = TrimmedJoin(ValueParts(SameKeyValues(fed.block, k)))
        /\ (\E i \in 1..Len(fed.block) :
               /\ \A c \in 1..Len(fed.block[i]) : fed.block[i][c] # 58
               /\ \A j \in 1..(i - 1) : LineError(fed.block[j]) = None)
              => request.result =
                    Err(RequestParseError_of("BadHeader", HeaderError_NoSeparator))

\* C19: "host:github.com:80" was parsed as the key "host" with the value
\* "github.com:80"
C19_Witness ==
    /\ request # None
    /\ fed.block = <<<<104, 111, 115, 116, 58, 103, 105, 116, 104, 117, 98, 46, 99, 111, 109, 58, 56, 48>>>>
    /\ IsOk(request.result)
    /\ request.result.val.headers = [k \in {HostKey} |-> <<103, 105, 116, 104, 117, 98, 46, 99, 111, 109, 58, 56, 48>>]

\* the header line l has whitespace immediately before its first colon
WhitespaceBeforeColon(l) ==
    /\ \E c \in 1..Len(l) : l[c] = 58
    /\ KeyTrailingSpace(KeyPart(l))

\* C20 as claimed: every request with a header line that has whitespace
\* immediately before the separating colon fails to parse with
\* BadHeader(Key(ColonWhitespace)), and appropriate_response on that error is
\* 400 Bad Request.  (Stated for the requests whose start line is well formed,
\* where no failure of the start line can be the cause.)
C20_AsClaimed ==
    (/\ request # None
     /\ ReachesHeaders(fed) /\ Len(fed.words) = 3
     /\ \E i \in 1..Len(fed.block) : WhitespaceBeforeColon(fed.block[i]))
        => /\ request.result =
                 Err(RequestParseError_of("BadHeader", HeaderError_Key("ColonWhitespace")))
           /\ "reply" \in DOMAIN request => request.reply = Some(400)

\* C20: when the start line has three words with a valid version word and a
\* header line with whitespace immediately before its first colon follows
\* valid header lines only, the parse fails with BadHeader(Key(e)): e is
\* ColonWhitespace, and appropriate_response is 400 Bad Request, when the key
\* is ASCII and does not begin with whitespace; e is NonAsciiChars for a
\* non-ASCII key and otherwise LeadingWhitespace for a key that begins with
\* whitespace, and appropriate_response is then None.
C20_WhitespaceBeforeColon ==
    (request # None /\ ReachesHeaders(fed) /\ Len(fed.words) = 3) =>
        \A i \in 1..Len(fed.block) :
            (/\ WhitespaceBeforeColon(fed.block[i])
             /\ \A j \in 1..(i - 1) : LineError(fed.block[j]) = None)
            => LET k == KeyPart(fed.block[i])
                   e == IF KeyNonAscii(k) THEN "NonAsciiChars"
                        ELSE IF KeyLeadingSpace(k) THEN "LeadingWhitespace"
                        ELSE "ColonWhitespace"
               IN  /\ request.result =
                         Err(RequestParseError_of("BadHeader", HeaderError_Key(e)))
                   /\ "reply" \in DOMAIN request =>
                         request.reply = IF e = "ColonWhitespace"
                                         THEN Some(400) ELSE None

\* C20: "hi :x" after a valid start line was refused, and the reply is 400
C20_Witness ==
    /\ request # None
    /\ fed.words = <<<<71, 69, 84>>, <<47>>, version_word(1, 1)>>
    /\ fed.block = <<<<104, 105, 32, 58, 120>>>>
    /\ request.result =
          Err(RequestParseError_of("BadHeader", HeaderError_Key("ColonWhitespace")))
    /\ "reply" \in DOMAIN request
    /\ request.reply = Some(400)

\* what the claim says appropriate_response maps the error e to
ClaimedReply(e) ==
    IF e.variant = "MethodNotRecognized" THEN Some(501)
    ELSE IF e = RequestParseError_of("BadHeader", HeaderError_Key("ColonWhitespace"))
    THEN Some(400)
    ELSE None

\* C21: appropriate_response maps MethodNotRecognized, with either inner
\* method error, to 501 Not Implemented, BadHeader(Key(ColonWhitespace)) to
\* 400 Bad Request, and every other parse error, every other BadHeader
\* included, to no response.
C21_AppropriateResponse ==
    /\ error # None => error.val.reply = ClaimedReply(error.val.error)
    /\ (request # None /\ "reply" \in DOMAIN request) =>
          request.reply = ClaimedReply(request.result.err)

\* C21: BadHeader(Key(LeadingWhitespace)) was given no response, after the
\* parse of a text with a lower-case method word was answered with 501
C21_Witness ==
    /\ error = Some([error |-> RequestParseError_of("BadHeader",
                                  HeaderError_Key("LeadingWhitespace")),
                     reply |-> None])
    /\ request # None
    /\ "reply" \in DOMAIN request
    /\ request.reply = Some(501)

\* the discriminants of enum Response
StandardCodes ==
    {100, 101, 102, 103} \cup {200, 201, 202, 203, 204, 205, 206, 207, 208, 226}
    \cup {300, 301, 302, 303, 304, 305, 306, 307, 308}
    \cup (400..418) \cup {421, 422, 423, 424, 425, 426, 428, 429, 431, 451}
    \cup (500..508) \cup {510, 511}

\* the decimal digits of a status line's code: the text between the first and
\* the second space
CodeWritten(bytes) ==
    LET sp == {i \in 1..Len(bytes) : bytes[i] = 32}
        a == CHOOSE i \in sp : \A j \in sp : i <= j
        b == CHOOSE i \in sp \ {a} : \A j \in sp \ {a} : i <= j
    IN  SubSeq(bytes, a + 1, b - 1)

PhraseWritten(bytes) ==
    LET sp == {i \in 1..Len(bytes) : bytes[i] = 32}
        a == CHOOSE i \in sp : \A j \in sp : i <= j
        b == CHOOSE i \in sp \ {a} : \A j \in sp \ {a} : i <= j
        cr == CHOOSE i \in 1..Len(bytes) :
                 bytes[i] = 13 /\ \A j \in 1..(i - 1) : bytes[j] # 13
    IN  SubSeq(bytes, b + 1, cr - 1)

\* C23 as claimed: for every valid status code the reason phrase written on
\* the serialized start line consists only of upper-case letters, spaces and
\* hyphens.
C23_AsClaimed ==
    out # None =>
        \A i \in 1..Len(PhraseWritten(out.val)) :
            PhraseWritten(out.val)[i] \in (65..90) \cup {32, 45}

\* C24: one leading empty line is tolerated: for a text T whose first line is
\* not empty, an empty line followed by T parses to the same result as T; the
\* empty text and a text of a single empty line fail with EmptyRequest.
C24_LeadingEmptyLine ==
    /\ (/\ cmp # None
        /\ fed.lead = <<>> /\ StartLineInPlace(fed)
        /\ cmp.parts.lead \in {CRLF, <<10>>}
        /\ cmp.parts = [fed EXCEPT !.lead = cmp.parts.lead])
          => cmp.result = request.result
    /\ (request # None /\ raw \in {<<>>, CRLF, <<10>>})
          => request.result = Err(RequestParseError("EmptyRequest"))

\* C24: "GET / HTTP/1.1" with the header "hi:its me" parsed to the same
\* Request with an empty line in front
C24_Witness ==
    /\ cmp # None
    /\ fed.lead = <<>>
    /\ fed.block = <<<<104, 105, 58, 105, 116, 115, 32, 109, 101>>>>
    /\ cmp.parts = [fed EXCEPT !.lead = CRLF]
    /\ IsOk(request.result)
    /\ cmp.result = request.result

\* C25: is_safe is true exactly for Get, Head, Options and Trace, and
\* is_idempotent exactly for those four, Put and Delete: every safe method is
\* idempotent, and Post and Connect are neither.
C25_SafeAndIdempotent ==
    cmp # None =>
        /\ cmp.is_safe <=> cmp.method \in {"Get", "Head", "Options", "Trace"}
        /\ cmp.is_idempotent <=>
              cmp.method \in {"Get", "Head", "Options", "Trace", "Put", "Delete"}
        /\ cmp.is_safe => cmp.is_idempotent
        /\ cmp.method \in {"Post", "Connect"} =>
              ~cmp.is_safe /\ ~cmp.is_idempotent

\* C25: a parsed TRACE request was found safe and idempotent
C25_Witness ==
    /\ cmp # None
    /\ cmp.method = "Trace"
    /\ cmp.is_safe
    /\ cmp.is_idempotent

\* C26 as claimed: of a request text with defects in several parts, the
\* error is the one of the earliest step in the order method word, HTTP word
\* and version, header lines: a start line of three words or more whose
\* method word is not a method reports MethodNotRecognized, whatever the
\* version word and the header lines are.
C26_AsClaimed ==
    (/\ request # None
     /\ StartLineInPlace(fed)
     /\ Len(fed.words) >= 3
     /\ IsErr(MethodOutcome(fed.words[1]))) =>
        request.result =
            Err(RequestParseError_of("MethodNotRecognized",
                                     MethodOutcome(fed.words[1]).err))

\* C26: of a request text whose start line has three words or more, the error
\* is the one of the earliest step in the order HTTP word (InvalidHttpWord),
\* version (InvalidVersion), header lines (BadHeader), method word
\* (MethodNotRecognized); with no defect in any of them the text parses.
C26_EarliestStepDecides ==
    (request # None /\ StartLineInPlace(fed) /\ Len(fed.words) >= 3) =>
        IF ~BeginsWithHttp(fed.words[3])
        THEN request.result = Err(RequestParseError("InvalidHttpWord"))
        ELSE IF ~TwoIntegers(SubSeq(fed.words[3], 6, Len(fed.words[3])))
        THEN request.result = Err(RequestParseError("InvalidVersion"))
        ELSE IF InvalidLines(fed.block) # {}
        THEN /\ IsErr(request.result)
             /\ request.result.err.variant = "BadHeader"
        ELSE IF IsErr(MethodOutcome(fed.words[1]))
        THEN request.result =
                Err(RequestParseError_of("MethodNotRecognized",
                                         MethodOutcome(fed.words[1]).err))
        ELSE IsOk(request.result)

\* C26: "get" is no method and a header line is invalid as well: BadHeader
C26_Witness ==
    /\ request # None
    /\ StartLineInPlace(fed)
    /\ Len(fed.words) = 3
    /\ IsErr(MethodOutcome(fed.words[1]))
    /\ ReachesHeaders(fed)
    /\ InvalidLines(fed.block) # {}
    /\ IsErr(request.result)
    /\ request.result.err.variant = "BadHeader"

\* C27: the text after the first empty line that follows the start line has
\* no influence on the parse: two request texts that are the same up to and
\* including that empty line parse to the same result, the same Request or
\* the same error, whatever follows the empty line, lines that would be
\* invalid headers included.
C27_TextAfterBlankLineIgnored ==
    (/\ cmp # None
     /\ fed.tail \in BlankTails
     /\ cmp.parts.tail \in BlankTails
     /\ cmp.parts = [fed EXCEPT !.tail = cmp.parts.tail]) =>
        cmp.result = request.result

\* C27: a text with a valid header parsed to the same Request with the
\* invalid header line "x :y" after its blank line
C27_Witness ==
    /\ cmp # None
    /\ fed.tail = CRLF
    /\ Len(fed.block) > 0
    /\ cmp.parts = [fed EXCEPT !.tail = CRLF \o <<120, 32, 58, 121>> \o CRLF]
    /\ IsOk(request.result)
    /\ cmp.result = request.result

\* the position of the first occurrence of t in s, 0 when there is none
find_seq(s, t) ==
    LET at == {i \in 1..(Len(s) - Len(t) + 1) : SubSeq(s, i, i + Len(t) - 1) = t}
    IN  IF at = {} THEN 0 ELSE CHOOSE i \in at : \A j \in at : i <= j

\* the number of lines of bytes between its first line and its first empty line
HeaderLinesWritten(bytes) ==
    LET ls == lines(bytes)
        empties == {i \in 2..Len(ls) : is_empty(ls[i])}
    IN  IF empties = {} THEN Len(ls) - 1
        ELSE (CHOOSE i \in empties : \A j \in empties : i <= j) - 2

\* C28 as claimed: for every builder reached by successful header() calls, no
\* serialized header line holds a CR or LF: the into_bytes output has as many
\* lines between the start line and the first empty line as the map has keys,
\* and its first "\r\n\r\n" is the separator, followed by exactly the body.
C28_AsClaimed ==
    (out # None /\ typestate \in {"Incomplete", "Complete"}) =>
        /\ \A k \in DOMAIN headers :
               ~contains(header_line(k, headers[k]), {13, 10})
        /\ HeaderLinesWritten(out.val) = Cardinality(DOMAIN headers)
        /\ LET sep == find_seq(out.val, CRLF \o CRLF)
           IN  /\ sep > 0
               /\ SubSeq(out.val, sep + 4, Len(out.val)) = body

====
